---------------------------- MODULE Spec2Model ----------------------------
(***************************************************************************)
(* Content distribution pipeline: the /api/process-content route handler   *)
(* (src/unnamed/part_000, the richer route; src/unnamed/part_001, the      *)
(* baseline route), the pure analyzers and transformers it calls, and the  *)
(* page that posts to it (src/components/content-pipeline-interface.tsx).  *)
(*                                                                         *)
(* A text is a sequence of UTF-16 code units, each a one-character string  *)
(* (the two halves of an emoji are the units "D83D" and "DE00").  Numbers with *)
(* fractions are exact rationals [num, den].                               *)
(***************************************************************************)
EXTENDS Integers, Sequences, FiniteSets, TLC

VARIABLES
    args,       \* unit call: the arguments the function is applied to
    ret,        \* unit call: the value it returned
    called,     \* unit call: the function applied, "" before the call
    pc,         \* POST: the statement the handler is at
    route,      \* POST: "optimized" (part_000) or "baseline" (part_001)
    request,    \* POST: the body of the request
    clock,      \* POST: the reading of new Date() during the request
    locals,     \* POST: the local constants assigned so far
    thrown,     \* POST: the call that threw, "" if none did
    response,   \* POST: the response returned, status 0 before it
    log,        \* POST: the calls of the components, in order
    parked,     \* concurrent requests: the state of each request that is
                \* not running (for the running one, Running)
    current,    \* concurrent requests: the request that is running, 0 if
                \* requests are not interleaved
    contentInput,   \* page: the state content, the text of the input field
    isProcessing,   \* page: the state isProcessing
    result,         \* page: the state result
    copiedPlatform, \* page: the state copiedPlatform
    invocations,    \* page: the invocations of handleProcess, each with
                    \* the statement it is at
    copies,         \* page: the invocations of copyToClipboard, each with
                    \* the statement it is at and the timer it has set
    seconds         \* page: the time since the page was mounted

pageVars == <<contentInput, isProcessing, result, copiedPlatform, invocations,
              copies, seconds>>
handlerVars == <<pc, route, request, clock, locals, thrown, response, log,
                 parked, current, pageVars>>
vars == <<args, ret, called, pc, route, request, clock, locals, thrown,
          response, log, parked, current, contentInput, isProcessing, result,
          copiedPlatform, invocations, copies, seconds>>

\* useState(null) of result and of copiedPlatform
NoResult == [request |-> 0]
NullPlatform == "null"

\* the state of the page when it is mounted: the initial values of useState
Mounted ==
    /\ contentInput = <<>>
    /\ isProcessing = FALSE
    /\ result = NoResult
    /\ copiedPlatform = NullPlatform
    /\ invocations = <<>>
    /\ copies = <<>>
    /\ seconds = 0

(***************************************************************************)
(* Bounds of the explored inputs.                                          *)
(***************************************************************************)
MaxPieces == 3      \* a text is built from at most this many fragments

(***************************************************************************)
(* Characters.                                                             *)
(***************************************************************************)
LowerLetters ==
    <<"a","b","c","d","e","f","g","h","i","j","k","l","m",
      "n","o","p","q","r","s","t","u","v","w","x","y","z">>
UpperLetters ==
    <<"A","B","C","D","E","F","G","H","I","J","K","L","M",
      "N","O","P","Q","R","S","T","U","V","W","X","Y","Z">>
Digits == {"0","1","2","3","4","5","6","7","8","9"}

Range(s) == {s[i] : i \in DOMAIN s}

LowerSet == Range(LowerLetters)
UpperSet == Range(UpperLetters)

\* \w of a JavaScript regular expression: [A-Za-z0-9_]
WordChars == LowerSet \cup UpperSet \cup Digits \cup {"_"}
\* \s of a JavaScript regular expression (the members that texts here use)
Whitespace == {" ", "\n", "\t"}
\* [.!?]
SentenceEnd == {".", "!", "?"}
\* [aeiouy]
Vowels == {"a", "e", "i", "o", "u", "y"}

\* String.prototype.toLowerCase, one code unit
LowerOf ==
    [c \in UpperSet |->
        LowerLetters[CHOOSE i \in DOMAIN UpperLetters : UpperLetters[i] = c]]

LowerChar(c) == IF c \in UpperSet THEN LowerOf[c] ELSE c

\* String.prototype.toLowerCase
toLowerCase(t) == [i \in DOMAIN t |-> LowerChar(t[i])]

\* Whether c is matched by the separator class of a split: "W" is \W,
\* "s" is \s, "sentence" is [.!?]
IsSep(cls, c) ==
    CASE cls = "W" -> c \notin WordChars
      [] cls = "s" -> c \in Whitespace
      [] cls = "sentence" -> c \in SentenceEnd

\* String.prototype.split(/X+/): the pieces between maximal runs of
\* separators; a leading or trailing run leaves an empty piece, and the
\* empty string splits into one empty piece.  SplitRec splits the units
\* lo..hi by halving; the halves' pieces meet at the cut: inside a run of
\* separators the two empty pieces at the cut vanish, elsewhere the last
\* piece of the left half continues in the first piece of the right half.
RECURSIVE SplitRec(_, _, _, _)
SplitRec(t, cls, lo, hi) ==
    IF lo > hi THEN << <<>> >>
    ELSE IF lo = hi
    THEN IF IsSep(cls, t[lo]) THEN << <<>>, <<>> >> ELSE << <<t[lo]>> >>
    ELSE LET mid == (lo + hi) \div 2
             L == SplitRec(t, cls, lo, mid)
             R == SplitRec(t, cls, mid + 1, hi)
         IN  IF IsSep(cls, t[mid]) /\ IsSep(cls, t[mid + 1])
             THEN SubSeq(L, 1, Len(L) - 1) \o Tail(R)
             ELSE SubSeq(L, 1, Len(L) - 1) \o << L[Len(L)] \o R[1] >> \o Tail(R)

Split(t, cls) == SplitRec(t, cls, 1, Len(t))

\* String.prototype.split(/X+/).length: one piece more than there are
\* maximal runs of separators
SplitLength(t, cls) ==
    1 + Cardinality({i \in DOMAIN t :
            IsSep(cls, t[i]) /\ (i = 1 \/ ~IsSep(cls, t[i - 1]))})

\* The concatenation of the sequences f[lo], ..., f[hi]
RECURSIVE Flatten(_, _, _)
Flatten(f, lo, hi) ==
    IF lo > hi THEN <<>>
    ELSE IF lo = hi THEN f[lo]
    ELSE LET mid == (lo + hi) \div 2
         IN  Flatten(f, lo, mid) \o Flatten(f, mid + 1, hi)

\* The sum of the numbers f[lo], ..., f[hi]
RECURSIVE SumOver(_, _, _)
SumOver(f, lo, hi) ==
    IF lo > hi THEN 0
    ELSE IF lo = hi THEN f[lo]
    ELSE LET mid == (lo + hi) \div 2
         IN  SumOver(f, lo, mid) + SumOver(f, mid + 1, hi)

\* Array.prototype.includes
Includes(arr, x) == \E i \in DOMAIN arr : arr[i] = x

\* String.prototype.includes for a one-unit needle
IncludesChar(t, c) == \E i \in DOMAIN t : t[i] = c

\* String.prototype.includes
IncludesStr(t, needle) ==
    \E i \in 1..(Len(t) - Len(needle) + 1) :
        \A j \in 1..Len(needle) : t[i + j - 1] = needle[j]

\* A match of /\bw\b/i at position i of t: the word w, letter case ignored,
\* bounded on both sides by a non-word unit or the text's edge
WholeWordAt(t, w, i) ==
    /\ i = 1 \/ t[i - 1] \notin WordChars
    /\ i + Len(w) - 1 <= Len(t)
    /\ \A j \in 1..Len(w) : LowerChar(t[i + j - 1]) = w[j]
    /\ i + Len(w) > Len(t) \/ t[i + Len(w)] \notin WordChars

\* The positions of t where /\b(w1|w2|...)\b/i matches, the words all
\* beginning with a word unit: a match begins where a run of word units
\* begins
MatchAt(t, words, i) ==
    /\ i = 1 \/ t[i - 1] \notin WordChars
    /\ LET c == LowerChar(t[i])
       IN  \E w \in words : w[1] = c /\ WholeWordAt(t, w, i)

MatchStarts(t, words) == {i \in DOMAIN t : MatchAt(t, words, i)}

\* The number of elements of arr that are in the list S
CountIn(arr, S) == Cardinality({i \in DOMAIN arr : arr[i] \in S})

(***************************************************************************)
(* Exact rationals.                                                        *)
(***************************************************************************)
Rat(n, d) == [num |-> n, den |-> d]
RatLt(a, b) == a.num * b.den < b.num * a.den
RatEq(a, b) == a.num * b.den = b.num * a.den
RatLeq(a, b) == a.num * b.den <= b.num * a.den
RatMin(a, b) == IF RatLt(b, a) THEN b ELSE a

(***************************************************************************)
(* Sentiment Classifier: analyzeSentiment.                                 *)
(***************************************************************************)
positiveWords ==
    { <<"g","o","o","d">>, <<"g","r","e","a","t">>,
      <<"e","x","c","e","l","l","e","n","t">>,
      <<"a","m","a","z","i","n","g">>, <<"w","o","n","d","e","r","f","u","l">>,
      <<"f","a","n","t","a","s","t","i","c">>,
      <<"l","o","v","e">>, <<"b","e","s","t">>, <<"a","w","e","s","o","m","e">>,
      <<"p","e","r","f","e","c","t">>, <<"h","a","p","p","y">>,
      <<"e","x","c","i","t","e","d">>,
      <<"t","h","r","i","l","l","e","d">>, <<"d","e","l","i","g","h","t","e","d">> }
negativeWords ==
    { <<"b","a","d">>, <<"t","e","r","r","i","b","l","e">>, <<"a","w","f","u","l">>,
      <<"h","o","r","r","i","b","l","e">>, <<"h","a","t","e">>, <<"w","o","r","s","t">>,
      <<"d","i","s","a","p","p","o","i","n","t","e","d">>,
      <<"f","r","u","s","t","r","a","t","e","d">>, <<"a","n","g","r","y">>,
      <<"s","a","d">>, <<"d","i","f","f","i","c","u","l","t">>,
      <<"p","r","o","b","l","e","m">>,
      <<"i","s","s","u","e">>, <<"f","a","i","l","e","d">> }

\* the cap of the confidence: Math.min(0.95, ...)
ConfidenceCap == Rat(95, 100)

\* 0.6 + (count / total) * 0.4
RawConfidence(count, total) == Rat(6 * total + 4 * count, 10 * total)

\* (a variant without the cap)
UncappedConfidence(count, total) == RawConfidence(count, total)

\* Math.min(0.95, 0.6 + (count / total) * 0.4)
Confidence(count, total) == RatMin(ConfidenceCap, RawConfidence(count, total))

\* (a variant that resolves a tie of the two counts as positive)
analyzeSentimentTieAsPositive(text) ==
    LET words == Split(toLowerCase(text), "W")
        positiveCount == CountIn(words, positiveWords)
        negativeCount == CountIn(words, negativeWords)
        total == positiveCount + negativeCount
    IN  IF total = 0
        THEN [label |-> "neutral", confidence |-> Rat(5, 10)]
        ELSE IF positiveCount >= negativeCount
        THEN [label |-> "positive", confidence |-> Confidence(positiveCount, total)]
        ELSE [label |-> "negative", confidence |-> Confidence(negativeCount, total)]

analyzeSentiment(text) ==
    LET words == Split(toLowerCase(text), "W")
        positiveCount == CountIn(words, positiveWords)
        negativeCount == CountIn(words, negativeWords)
        total == positiveCount + negativeCount
    IN  IF total = 0
        THEN [label |-> "neutral", confidence |-> Rat(5, 10)]
        ELSE IF positiveCount > negativeCount
        THEN [label |-> "positive", confidence |-> Confidence(positiveCount, total)]
        ELSE IF negativeCount > positiveCount
        THEN [label |-> "negative", confidence |-> Confidence(negativeCount, total)]
        ELSE [label |-> "neutral", confidence |-> Rat(7, 10)]

(***************************************************************************)
(* Readability Scorer: calculateReadability.                               *)
(***************************************************************************)
\* String.prototype.trim().length > 0: some unit is not whitespace
NonBlank(t) == \E i \in DOMAIN t : t[i] \notin Whitespace

\* The number of elements of arr that satisfy the length/blank filter:
\* kind "nonblank" is s.trim().length > 0, kind "nonempty" is w.length > 0
CountKept(arr, kind) ==
    Cardinality({i \in DOMAIN arr :
        \/ kind = "nonblank" /\ NonBlank(arr[i])
        \/ kind = "nonempty" /\ Len(arr[i]) > 0})

\* word.match(/[aeiouy]+/g)?.length: the number of maximal runs of vowels
\* (0 stands for the null of a word without a vowel)
VowelRuns(w) ==
    Cardinality({i \in DOMAIN w :
        /\ w[i] \in Vowels
        /\ i = 1 \/ w[i - 1] \notin Vowels})

\* Math.max(1, word.toLowerCase().match(/[aeiouy]+/g)?.length || 1)
Syllables(word) ==
    LET n == VowelRuns(toLowerCase(word))
        orOne == IF n = 0 THEN 1 ELSE n
    IN  IF orOne > 1 THEN orOne ELSE 1

\* text.split(/\s+/).reduce(...): summed over every piece of the split,
\* the empty pieces of leading and trailing whitespace included
SumSyllables(arr) ==
    SumOver([i \in DOMAIN arr |-> Syllables(arr[i])], 1, Len(arr))

\* Math.round(206.835 - 1.015 * (words / sentences) - 84.6 * (syllables / words)),
\* in exact arithmetic: Math.round(x) is floor(x + 1/2)
RoundedScore(sentences, words, syllables) ==
    LET num == 206835 * sentences * words
               - 1015 * words * words
               - 84600 * syllables * sentences
        den == 1000 * sentences * words
    IN  (2 * num + den) \div (2 * den)

\* Math.max(0, Math.min(100, x))
Clamp(x) == IF x > 100 THEN 100 ELSE IF x < 0 THEN 0 ELSE x

\* (a variant without the clamp)
calculateReadabilityUnclamped(text) ==
    LET sentences == CountKept(Split(text, "sentence"), "nonblank")
        words == CountKept(Split(text, "s"), "nonempty")
        syllables == SumSyllables(Split(text, "s"))
    IN  IF sentences = 0 \/ words = 0 THEN 50
        ELSE RoundedScore(sentences, words, syllables)

\* (a variant that guards the division by counting at least one sentence
\* and one word instead of returning the neutral default)
calculateReadabilityNoDefault(text) ==
    LET s0 == CountKept(Split(text, "sentence"), "nonblank")
        w0 == CountKept(Split(text, "s"), "nonempty")
        sentences == IF s0 = 0 THEN 1 ELSE s0
        words == IF w0 = 0 THEN 1 ELSE w0
        syllables == SumSyllables(Split(text, "s"))
    IN  Clamp(RoundedScore(sentences, words, syllables))

calculateReadability(text) ==
    LET sentences == CountKept(Split(text, "sentence"), "nonblank")
        words == CountKept(Split(text, "s"), "nonempty")
        syllables == SumSyllables(Split(text, "s"))
    IN  IF sentences = 0 \/ words = 0 THEN 50
        ELSE Clamp(RoundedScore(sentences, words, syllables))

(***************************************************************************)
(* Hashtag Deriver: extractHashtags (baseline policy) and                  *)
(* generateOptimizedHashtags (optimized policy).  A tag is a string.       *)
(***************************************************************************)
\* Array.prototype.slice(0, end): a negative end counts from the back
Slice(arr, end) ==
    LET e0 == IF end < 0 THEN Len(arr) + end ELSE end
        e == IF e0 < 0 THEN 0 ELSE IF e0 > Len(arr) THEN Len(arr) ELSE e0
    IN  SubSeq(arr, 1, e)


\* .filter((word) => word.length > 3)
LongWords(arr) ==
    Flatten([i \in DOMAIN arr |-> IF Len(arr[i]) > 3 THEN <<arr[i]>> ELSE <<>>],
            1, Len(arr))

\* words.some((w) => list.includes(w))
SomeIn(words, list) == \E i \in DOMAIN words : words[i] \in list

\* [...new Set(arr)]: the first occurrence of each element, in order
RECURSIVE Unique(_, _)
Unique(arr, i) ==
    IF i > Len(arr) THEN <<>>
    ELSE (IF \E j \in 1..(i - 1) : arr[j] = arr[i] THEN <<>> ELSE <<arr[i]>>)
         \o Unique(arr, i + 1)


Platforms == {"twitter", "linkedin", "newsletter"}

commonHashtags ==
    [ twitter |-> <<"#tech", "#innovation", "#business", "#startup", "#ai",
                    "#productivity">>,
      linkedin |-> <<"#professional", "#business", "#leadership", "#growth",
                     "#innovation", "#networking">>,
      newsletter |-> <<>> ]

trendingHashtags ==
    [ twitter |-> <<"#AI", "#Tech", "#Innovation", "#Startup", "#Growth",
                    "#Digital", "#Future", "#Success">>,
      linkedin |-> <<"#Leadership", "#Professional", "#Business", "#Career",
                     "#Networking", "#Industry", "#Strategy", "#Growth">>,
      newsletter |-> <<>> ]

\* table[platform] || []
TagsOf(table, platform) ==
    IF platform \in DOMAIN table THEN table[platform] ELSE <<>>

\* the content-based tags of the baseline policy, in the order pushed
ContentTags(words) ==
    (IF Includes(words, <<"t","e","c","h","n","o","l","o","g","y">>) \/ Includes(words, <<"t","e","c","h">>)
     THEN <<"#technology">> ELSE <<>>)
    \o (IF Includes(words, <<"b","u","s","i","n","e","s","s">>) THEN <<"#business">> ELSE <<>>)
    \o (IF Includes(words, <<"i","n","n","o","v","a","t","i","o","n">>) THEN <<"#innovation">> ELSE <<>>)
    \o (IF Includes(words, <<"a","i">>) \/ Includes(words, <<"a","r","t","i","f","i","c","i","a","l">>)
        THEN <<"#ai">> ELSE <<>>)

extractHashtags(content, platform) ==
    LET words == LongWords(Split(toLowerCase(content), "W"))
        hashtags == ContentTags(words)
        platformTags == TagsOf(commonHashtags, platform)
        pushed == hashtags \o Slice(platformTags, 3 - Len(hashtags))
    IN  Slice(pushed, 5)

\* the content-based tags of the optimized policy, in the order pushed
ContentBasedTags(words) ==
    (IF SomeIn(words, {<<"a","i">>, <<"a","r","t","i","f","i","c","i","a","l">>, <<"i","n","t","e","l","l","i","g","e","n","c","e">>, <<"m","a","c","h","i","n","e">>, <<"l","e","a","r","n","i","n","g">>})
     THEN <<"#AI", "#MachineLearning", "#Technology">> ELSE <<>>)
    \o (IF SomeIn(words, {<<"b","u","s","i","n","e","s","s">>, <<"s","t","a","r","t","u","p">>, <<"e","n","t","r","e","p","r","e","n","e","u","r">>, <<"c","o","m","p","a","n","y">>})
        THEN <<"#Business", "#Startup", "#Entrepreneur">> ELSE <<>>)
    \o (IF SomeIn(words, {<<"m","a","r","k","e","t","i","n","g">>, <<"b","r","a","n","d">>, <<"s","o","c","i","a","l">>, <<"c","o","n","t","e","n","t">>})
        THEN <<"#Marketing", "#Branding", "#ContentMarketing">> ELSE <<>>)

generateOptimizedHashtags(content, platform) ==
    LET words == LongWords(Split(toLowerCase(content), "W"))
        contentBasedTags == ContentBasedTags(words)
        platformTags == TagsOf(trendingHashtags, platform)
        allTags == Unique(contentBasedTags \o platformTags, 1)
    IN  Slice(allTags, 5)

(***************************************************************************)
(* Channel Adapter: adaptForPlatform.  A tone is a JSON value:             *)
(* [type |-> "undefined"], [type |-> "string", value |-> ...] or a value   *)
(* of another type.                                                        *)
(***************************************************************************)
Undefined == [type |-> "undefined"]
Str(v) == [type |-> "string", value |-> v]
Num(v) == [type |-> "number", value |-> v]

\* the truthiness test of if (tone)
Truthy(v) ==
    CASE v.type = "undefined" -> FALSE
      [] v.type = "null" -> FALSE
      [] v.type = "string" -> v.value # ""
      [] v.type = "number" -> v.value # 0
      [] OTHER -> TRUE

\* tone.toLowerCase() of the tone names requests carry
LowerTone(name) ==
    CASE name = "Professional" -> "professional"
      [] name = "CASUAL" -> "casual"
      [] OTHER -> name

\* .replace(/!/g, ".")
ReplaceBangs(t) == [i \in DOMAIN t |-> IF t[i] = "!" THEN "." ELSE t[i]]

\* .replace(/\b(w1|w2|...)\b/gi, repl): the matches, left to right, each
\* replaced by repl; the units between them stay.  (A match is a whole run
\* of word units, so no two matches overlap.)
RECURSIVE ReplaceRec(_, _, _, _, _)
ReplaceRec(t, words, repl, from, starts) ==
    IF starts = {} THEN SubSeq(t, from, Len(t))
    ELSE LET m == CHOOSE i \in starts : \A k \in starts : i <= k
             w == CHOOSE w \in words : WholeWordAt(t, w, m)
         IN  SubSeq(t, from, m - 1) \o repl
             \o ReplaceRec(t, words, repl, m + Len(w), starts \ {m})

ReplaceWords(t, words, repl) ==
    ReplaceRec(t, words, repl, 1, MatchStarts(t, words))

\* .replace(/\.$/, "!")
ReplaceFinalDot(t) ==
    IF Len(t) > 0 /\ t[Len(t)] = "."
    THEN [i \in DOMAIN t |-> IF i = Len(t) THEN "!" ELSE t[i]]
    ELSE t

EXCELLENT == <<"e","x","c","e","l","l","e","n","t">>
AWESOME == <<"a","w","e","s","o","m","e">>
CasualWords == {<<"a","w","e","s","o","m","e">>, <<"a","m","a","z","i","n","g">>, <<"c","o","o","l">>}
\* (a variant of the casual pass that knows "outstanding" alone)
FormalWordsWithoutExcellent == {<<"o","u","t","s","t","a","n","d","i","n","g">>}
FormalWords == {<<"e","x","c","e","l","l","e","n","t">>, <<"o","u","t","s","t","a","n","d","i","n","g">>}

\* the tone adjustments: if (tone) { switch (tone.toLowerCase()) ... }
TonePass(content, tone) ==
    IF ~Truthy(tone) THEN content
    ELSE CASE LowerTone(tone.value) = "professional" ->
                ReplaceWords(ReplaceBangs(content), CasualWords, EXCELLENT)
           [] LowerTone(tone.value) = "casual" ->
                ReplaceWords(content, FormalWords, AWESOME)
           [] LowerTone(tone.value) = "enthusiastic" ->
                IF ~IncludesChar(content, "!") THEN ReplaceFinalDot(content)
                ELSE content
           [] OTHER -> content

\* tone.toLowerCase is not a function: a truthy tone that is no string
ToneThrows(tone) == Truthy(tone) /\ tone.type # "string"

TwitterPrompt ==
    <<" ","W","h","a","t"," ","d","o"," ","y","o","u"," ","t","h","i","n","k","?">>
Ellipsis == <<".", ".", ".">>
LinkedinFraming ==
    <<"I","n"," ","t","o","d","a","y","'","s"," ","b","u","s","i","n","e","s","s"," ","l","a","n","d","s","c","a","p","e",","," ">>
LinkedinQuestion ==
    <<"\n","\n","W","h","a","t"," ","h","a","s"," ","b","e","e","n"," ","y","o","u","r"," ","e","x","p","e","r","i","e","n","c","e"," ","w","i","t","h"," ","t","h","i","s","?"," ","S","h","a","r","e"," ","y","o","u","r"," ","t","h","o","u","g","h","t","s"," ","i","n"," ","t","h","e"," ","c","o","m","m","e","n","t","s",".">>
NewsletterGreeting ==
    <<"D","e","a","r"," ","S","u","b","s","c","r","i","b","e","r","s",",","\n","\n">>
NewsletterClosing ==
    <<"\n","\n","T","h","a","n","k"," ","y","o","u"," ","f","o","r"," ","r","e","a","d","i","n","g",","," ","a","n","d"," ","w","e"," ","l","o","o","k"," ","f","o","r","w","a","r","d"," ","t","o"," ","s","h","a","r","i","n","g"," ","m","o","r","e"," ","i","n","s","i","g","h","t","s"," ","w","i","t","h"," ","y","o","u"," ","s","o","o","n",".","\n","\n","B","e","s","t"," ","r","e","g","a","r","d","s",",","\n","T","h","e"," ","T","e","a","m">>

\* String.prototype.substring(0, n)
Substring(t, n) == SubSeq(t, 1, IF n > Len(t) THEN Len(t) ELSE n)

\* (a variant that appends the call-to-action whatever the length)
TwitterPassPromptAlways(t) ==
    LET cut == IF Len(t) > 240 THEN Substring(t, 240) \o Ellipsis ELSE t
    IN  cut \o TwitterPrompt

\* case "twitter"
TwitterPass(t) ==
    LET cut == IF Len(t) > 240 THEN Substring(t, 240) \o Ellipsis ELSE t
    IN  IF Len(cut) < 200 THEN cut \o TwitterPrompt ELSE cut

\* (a variant whose test for the two terms ignores the letter case)
LinkedinPassCaseBlind(t) ==
    LET low == toLowerCase(t)
        framed == IF ~IncludesStr(low, <<"p","r","o","f","e","s","s","i","o","n","a","l">>)
                     /\ ~IncludesStr(low, <<"b","u","s","i","n","e","s","s">>)
                  THEN LinkedinFraming \o low
                  ELSE t
    IN  framed \o LinkedinQuestion

\* case "linkedin"
LinkedinPass(t) ==
    LET framed == IF ~IncludesStr(t, <<"p","r","o","f","e","s","s","i","o","n","a","l">>)
                     /\ ~IncludesStr(t, <<"b","u","s","i","n","e","s","s">>)
                  THEN LinkedinFraming \o toLowerCase(t)
                  ELSE t
    IN  framed \o LinkedinQuestion

\* case "newsletter"
NewsletterPass(t) == NewsletterGreeting \o t \o NewsletterClosing

\* (a variant that runs the channel pass before the tone pass)
adaptForPlatformChannelFirst(content, platform, tone) ==
    TonePass(CASE platform = "twitter" -> TwitterPass(content)
               [] platform = "linkedin" -> LinkedinPass(content)
               [] platform = "newsletter" -> NewsletterPass(content)
               [] OTHER -> content,
             tone)

\* adaptForPlatform for a tone that does not throw
adaptForPlatform(content, platform, tone) ==
    LET adaptedContent == TonePass(content, tone)
    IN  CASE platform = "twitter" -> TwitterPass(adaptedContent)
          [] platform = "linkedin" -> LinkedinPass(adaptedContent)
          [] platform = "newsletter" -> NewsletterPass(adaptedContent)
          [] OTHER -> adaptedContent

(***************************************************************************)
(* Engagement Forecaster: predictEngagement and getOptimalPostingTime.     *)
(* The clock reading is [hour, day] (getHours, getDay); a random draw is   *)
(* Math.random() in thousandths, 0..999.                                   *)
(***************************************************************************)
\* The code units of U+1F600, an emoji of the range \u{1F600}-\u{1F64F}
EmojiHigh == "D83D"
EmojiLow == "DE00"

\* the emoji test of predictEngagement (with the u flag a lone surrogate
\* matches nothing)
HasEmoji(t) ==
    \E i \in 1..(Len(t) - 1) : t[i] = EmojiHigh /\ t[i + 1] = EmojiLow

CallToActionPhrases ==
    { <<"s","h","a","r","e">>, <<"c","o","m","m","e","n","t">>, <<"l","i","k","e">>,
      <<"f","o","l","l","o","w">>, <<"s","u","b","s","c","r","i","b","e">>,
      <<"c","l","i","c","k">>, <<"l","e","a","r","n"," ","m","o","r","e">>,
      <<"r","e","a","d"," ","m","o","r","e">> }

\* /\b(share|comment|like|follow|subscribe|click|learn more|read more)\b/i.test
HasCallToAction(t) == \E i \in DOMAIN t : MatchAt(t, CallToActionPhrases, i)

\* content.split(".")[0]: the units before the first "."
FirstSegment(t) ==
    IF IncludesChar(t, ".")
    THEN SubSeq(t, 1, (CHOOSE i \in DOMAIN t :
                          t[i] = "." /\ \A k \in 1..(i - 1) : t[k] # ".") - 1)
    ELSE t

\* (a variant whose comparisons include the hour of the slot)
getOptimalPostingTimeInclusive(platform, now) ==
    CASE platform = "twitter" ->
            IF now.hour <= 9 THEN "9:00 AM today"
            ELSE IF now.hour <= 13 THEN "1:00 PM today"
            ELSE IF now.hour <= 17 THEN "5:00 PM today"
            ELSE "9:00 AM tomorrow"
      [] platform = "linkedin" ->
            IF now.hour <= 8 THEN "8:00 AM today"
            ELSE IF now.hour <= 12 THEN "12:00 PM today"
            ELSE IF now.hour <= 17 THEN "5:00 PM today"
            ELSE "8:00 AM tomorrow"
      [] platform = "newsletter" ->
            IF now.day >= 2 /\ now.day <= 4
            THEN IF now.hour <= 10 THEN "10:00 AM today"
                 ELSE IF now.hour <= 14 THEN "2:00 PM today"
                 ELSE "10:00 AM tomorrow"
            ELSE "Tuesday 10:00 AM"
      [] OTHER -> "Optimal time not available"

getOptimalPostingTime(platform, now) ==
    CASE platform = "twitter" ->
            IF now.hour < 9 THEN "9:00 AM today"
            ELSE IF now.hour < 13 THEN "1:00 PM today"
            ELSE IF now.hour < 17 THEN "5:00 PM today"
            ELSE "9:00 AM tomorrow"
      [] platform = "linkedin" ->
            IF now.hour < 8 THEN "8:00 AM today"
            ELSE IF now.hour < 12 THEN "12:00 PM today"
            ELSE IF now.hour < 17 THEN "5:00 PM today"
            ELSE "8:00 AM tomorrow"
      [] platform = "newsletter" ->
            IF now.day >= 2 /\ now.day <= 4
            THEN IF now.hour < 10 THEN "10:00 AM today"
                 ELSE IF now.hour < 14 THEN "2:00 PM today"
                 ELSE "10:00 AM tomorrow"
            ELSE "Tuesday 10:00 AM"
      [] OTHER -> "Optimal time not available"

\* Math.round(baseScore * factor + Math.random() * spread), factor in
\* tenths and the draw in thousandths, in exact arithmetic
Metric(baseScore, factorTenths, draw, spread) ==
    (2 * (baseScore * factorTenths * 100 + draw * spread) + 1000) \div 2000

\* the score before the platform's adjustments
FeatureScore(content, sentiment) ==
    50
    + (IF sentiment.label = "positive" THEN 15
       ELSE IF sentiment.label = "negative" THEN 5 ELSE 0)
    + (IF IncludesChar(content, "#") THEN 10 ELSE 0)
    + (IF HasEmoji(content) THEN 8 ELSE 0)
    + (IF IncludesChar(content, "?") THEN 12 ELSE 0)
    + (IF HasCallToAction(content) THEN 15 ELSE 0)

\* baseScore after the platform's adjustments
BaseScore(content, platform, sentiment) ==
    LET contentLength == Len(content)
        wordCount == SplitLength(content, "s")
        features == FeatureScore(content, sentiment)
    IN  CASE platform = "twitter" ->
                features
                + (IF contentLength >= 71 /\ contentLength <= 100 THEN 10
                   ELSE IF contentLength > 280 THEN -20 ELSE 0)
          [] platform = "linkedin" ->
                features
                + (IF wordCount >= 50 /\ wordCount <= 200 THEN 15 ELSE 0)
                + (IF IncludesStr(content, <<"p","r","o","f","e","s","s","i","o","n","a","l">>)
                      \/ IncludesStr(content, <<"b","u","s","i","n","e","s","s">>)
                   THEN 10 ELSE 0)
          [] platform = "newsletter" ->
                features + (IF Len(FirstSegment(content)) <= 50 THEN 10 ELSE -5)
          [] OTHER -> features

\* (a variant that reports the score without the cap)
EngagementScoreUncapped(baseScore) == baseScore

\* Math.min(100, baseScore)
EngagementScore(baseScore) == IF baseScore > 100 THEN 100 ELSE baseScore

\* (a variant without the two bounds)
RateUnbounded(baseScore, tenths, lo, hi) == Rat(baseScore * tenths, 10)

\* Math.min(hi, Math.max(lo, baseScore * tenths / 10))
Rate(baseScore, tenths, lo, hi) ==
    LET raw == Rat(baseScore * tenths, 10)
    IN  IF RatLt(raw, Rat(lo, 1)) THEN Rat(lo, 1)
        ELSE IF RatLt(Rat(hi, 1), raw) THEN Rat(hi, 1) ELSE raw

\* the record returned for a baseScore, with the three random draws and
\* the clock reading the call takes
Forecast(baseScore, platform, draws, now) ==
        CASE platform = "twitter" ->
                [ predicted_likes |-> Metric(baseScore, 23, draws[1], 20),
                  predicted_retweets |-> Metric(baseScore, 8, draws[2], 10),
                  predicted_replies |-> Metric(baseScore, 5, draws[3], 8),
                  engagement_score |-> EngagementScore(baseScore),
                  optimal_posting_time |-> getOptimalPostingTime("twitter", now) ]
          [] platform = "linkedin" ->
                [ predicted_likes |-> Metric(baseScore, 18, draws[1], 15),
                  predicted_shares |-> Metric(baseScore, 6, draws[2], 8),
                  predicted_comments |-> Metric(baseScore, 9, draws[3], 12),
                  engagement_score |-> EngagementScore(baseScore),
                  optimal_posting_time |-> getOptimalPostingTime("linkedin", now) ]
          [] platform = "newsletter" ->
                [ predicted_open_rate |-> Rate(baseScore, 6, 15, 45),
                  predicted_click_rate |-> Rate(baseScore, 2, 2, 15),
                  engagement_score |-> EngagementScore(baseScore),
                  optimal_send_time |-> getOptimalPostingTime("newsletter", now) ]
          [] OTHER -> [none |-> TRUE]

predictEngagement(content, platform, sentiment, draws, now) ==
    Forecast(BaseScore(content, platform, sentiment), platform, draws, now)

(***************************************************************************)
(* optimizeContentForEngagement and generateOptimizationSuggestions.       *)
(***************************************************************************)
questions ==
    << <<"W","h","a","t"," ","d","o"," ","y","o","u"," ","t","h","i","n","k","?">>,
       <<"H","a","v","e"," ","y","o","u"," ","e","x","p","e","r","i","e","n","c","e","d"," ","t","h","i","s","?">>,
       <<"W","h","a","t","'","s"," ","y","o","u","r"," ","t","a","k","e"," ","o","n"," ","t","h","i","s","?">>,
       <<"D","o"," ","y","o","u"," ","a","g","r","e","e","?">> >>
InnovationTag ==
    <<" ","#","I","n","n","o","v","a","t","i","o","n">>
LinkedinShareCta ==
    <<"\n","\n","S","h","a","r","e"," ","y","o","u","r"," ","t","h","o","u","g","h","t","s"," ","i","n"," ","t","h","e"," ","c","o","m","m","e","n","t","s"," ","b","e","l","o","w","!">>

\* content.split(" ").length: one more than the number of spaces
SpaceSplitLength(t) == 1 + Cardinality({i \in DOMAIN t : t[i] = " "})

\* optimizeContentForEngagement; pick is Math.floor(Math.random() * 4)
optimizeContentForEngagement(content, platform, pick) ==
    LET asked == IF ~IncludesChar(content, "?") /\ platform # "newsletter"
                 THEN content \o <<" ">> \o questions[pick + 1]
                 ELSE content
    IN  CASE platform = "twitter" ->
                IF ~IncludesChar(asked, "#") THEN asked \o InnovationTag ELSE asked
          [] platform = "linkedin" ->
                IF ~IncludesStr(asked, <<"s","h","a","r","e">>)
                   /\ ~IncludesStr(asked, <<"c","o","m","m","e","n","t">>)
                THEN asked \o LinkedinShareCta ELSE asked
          [] platform = "newsletter" ->
                IF SpaceSplitLength(content) > 8
                THEN Substring(FirstSegment(content), 47) \o Ellipsis
                ELSE asked
          [] OTHER -> asked

\* (a variant of the set without its longest word)
PowerWordsWithoutBreakthrough ==
    { <<"a","m","a","z","i","n","g">>, <<"i","n","c","r","e","d","i","b","l","e">>,
      <<"i","n","n","o","v","a","t","i","v","e">>,
      <<"r","e","v","o","l","u","t","i","o","n","a","r","y">> }

PowerWords ==
    { <<"a","m","a","z","i","n","g">>, <<"i","n","c","r","e","d","i","b","l","e">>,
      <<"b","r","e","a","k","t","h","r","o","u","g","h">>,
      <<"i","n","n","o","v","a","t","i","v","e">>,
      <<"r","e","v","o","l","u","t","i","o","n","a","r","y">> }

HashtagRecommendations ==
    << "Add trending hashtags for better discoverability",
       "Use platform-specific hashtags",
       "Include branded hashtags if applicable",
       "Mix popular and niche hashtags" >>
TimingRecommendations ==
    << "Post during peak hours for your audience",
       "Consider time zones of your target audience",
       "Use scheduling tools for optimal timing",
       "Test different posting times to find what works best" >>
PowerWordsHint == "Add power words like \"amazing\", \"breakthrough\", or \"innovative\""
QuestionHint == "Consider adding a question to increase engagement"
EmotionHint == "Consider adding more emotional language to increase engagement"
ClarifyToneHint == "Clarify the tone to make the message more impactful"

\* (a variant that asks to clarify the tone at a confidence of 0.7 too)
generateOptimizationSuggestionsClarifyAtTie(content, sentiment) ==
    LET hasKeywords == \E i \in DOMAIN content : MatchAt(content, PowerWords, i)
    IN  [ hashtag_recommendations |-> HashtagRecommendations,
          keyword_suggestions |->
              (IF ~hasKeywords THEN <<PowerWordsHint>> ELSE <<>>)
              \o (IF ~IncludesChar(content, "?") THEN <<QuestionHint>> ELSE <<>>),
          tone_adjustments |->
              (IF sentiment.label = "neutral" THEN <<EmotionHint>> ELSE <<>>)
              \o (IF RatLeq(sentiment.confidence, Rat(7, 10))
                  THEN <<ClarifyToneHint>> ELSE <<>>),
          timing_recommendations |-> TimingRecommendations ]

generateOptimizationSuggestions(content, sentiment) ==
    LET hasKeywords == \E i \in DOMAIN content : MatchAt(content, PowerWords, i)
    IN  [ hashtag_recommendations |-> HashtagRecommendations,
          keyword_suggestions |->
              (IF ~hasKeywords THEN <<PowerWordsHint>> ELSE <<>>)
              \o (IF ~IncludesChar(content, "?") THEN <<QuestionHint>> ELSE <<>>),
          tone_adjustments |->
              (IF sentiment.label = "neutral" THEN <<EmotionHint>> ELSE <<>>)
              \o (IF RatLt(sentiment.confidence, Rat(7, 10))
                  THEN <<ClarifyToneHint>> ELSE <<>>),
          timing_recommendations |-> TimingRecommendations ]

(***************************************************************************)
(* Input texts: concatenations of at most MaxPieces fragments.             *)
(***************************************************************************)
RECURSIVE Concats(_, _)
Concats(P, k) ==
    IF k = 0 THEN {<<>>}
    ELSE LET S == Concats(P, k - 1) IN S \cup {s \o p : s \in S, p \in P}

SentimentPieces ==
    { <<"g","o","o","d"," ">>, <<"b","a","d"," ">>, <<"G","R","E","A","T",".">>,
      <<"s","a","d">>, <<"l","o","v","e">>, <<"x">>, <<"_">>, <<" ">> }
SentimentTexts == Concats(SentimentPieces, MaxPieces)

ReadabilityPieces ==
    { <<"h","e","l","l","o">>, <<"b","a","n","a","n","a">>, <<"G","o">>,
      <<"x">>, <<" ">>, <<"\n">>, <<".">>, <<"!">>, <<"?"," ">> }
ReadabilityTexts == Concats(ReadabilityPieces, MaxPieces)

HashtagPieces ==
    { <<"t","e","c","h"," ">>, <<"b","u","s","i","n","e","s","s",".">>,
      <<"i","n","n","o","v","a","t","i","o","n"," ">>, <<"A","r","t","i","f","i","c","i","a","l"," ">>,
      <<"a","i"," ">>, <<"m","a","r","k","e","t","i","n","g"," ">>,
      <<"t","e","c","h","n","o","l","o","g","y"," ","b","u","s","i","n","e","s","s"," ">>, <<"x">> }
HashtagTexts == Concats(HashtagPieces, MaxPieces)

\* Filler: n units of single-letter words, each led by a space
Pad(n) == [i \in 1..n |-> IF i % 2 = 1 THEN " " ELSE "x"]

\* t, filled up to a total length (left as it is when already that long)
PadTo(t, total) == IF total > Len(t) THEN t \o Pad(total - Len(t)) ELSE t

\* total lengths around the thresholds of the short-form channel
\* (0: no filler)
AdaptLengths == {0, 199, 200, 240, 241, 300}

AdaptPieces ==
    { <<"a","w","e","s","o","m","e","!">>, <<"O","u","t","s","t","a","n","d","i","n","g"," ">>,
      <<"e","x","c","e","l","l","e","n","t",".">>, <<"c","o","o","l">> }
AdaptExamples ==
    { <<"T","h","i","s"," ","i","s"," ","a","w","e","s","o","m","e","!">>,
      <<"O","u","r"," ","b","u","s","i","n","e","s","s"," ","i","s"," ","A","m","a","z","i","n","g">>,
      <<"B","i","g"," ","B","u","s","i","n","e","s","s">>,
      <<"A"," ","p","r","o","f","e","s","s","i","o","n","a","l">> }
AdaptTexts ==
    {PadTo(t, n) : t \in Concats(AdaptPieces, MaxPieces), n \in AdaptLengths}
    \cup AdaptExamples

Tones ==
    { Undefined, Str(""), Str("professional"), Str("casual"),
      Str("enthusiastic"), Str("Professional"), Str("formal") }

\* total lengths around the thresholds of the forecast (0: no filler)
ForecastLengths == {0, 70, 71, 100, 101, 280, 281}

ForecastPieces ==
    { <<"#">>, <<"L","i","k","e"," ">>, <<"?">>, <<EmojiHigh, EmojiLow>> }
ForecastTexts ==
    {PadTo(t, n) : t \in Concats(ForecastPieces, MaxPieces), n \in ForecastLengths}

SentimentLabels == {"positive", "negative", "neutral"}

\* the random draws of one call (thousandths) and the clock readings
DrawTriples == { <<0, 0, 0>>, <<999, 0, 500>>, <<999, 999, 999>> }
ClockReadings == { [hour |-> 9, day |-> 2], [hour |-> 23, day |-> 0] }

(***************************************************************************)
(* Unit calls of the pure functions.                                       *)
(***************************************************************************)
NoRet == [fn |-> ""]
NoResponse == [status |-> 0]

\* no request is being handled
HandlerOff ==
    /\ pc = "off"
    /\ route = ""
    /\ request = [type |-> "none"]
    /\ clock = [hour |-> 0, day |-> 0]
    /\ locals = [startTime |-> 0]
    /\ thrown = ""
    /\ response = NoResponse
    /\ log = <<>>
    /\ parked = <<>>
    /\ current = 0
    /\ Mounted

InitSentiment ==
    /\ args \in {[fn |-> "analyzeSentiment", text |-> t] : t \in SentimentTexts}
    /\ ret = NoRet
    /\ called = ""
    /\ HandlerOff

CallAnalyzeSentiment ==
    /\ called = ""
    /\ args.fn = "analyzeSentiment"
    /\ ret' = analyzeSentiment(args.text)
    /\ called' = "analyzeSentiment"
    /\ UNCHANGED <<args, handlerVars>>

SpecSentiment == InitSentiment /\ [][CallAnalyzeSentiment]_vars

InitReadability ==
    /\ args \in {[fn |-> "calculateReadability", text |-> t] : t \in ReadabilityTexts}
    /\ ret = NoRet
    /\ called = ""
    /\ HandlerOff

CallCalculateReadability ==
    /\ called = ""
    /\ args.fn = "calculateReadability"
    /\ ret' = calculateReadability(args.text)
    /\ called' = "calculateReadability"
    /\ UNCHANGED <<args, handlerVars>>

SpecReadability == InitReadability /\ [][CallCalculateReadability]_vars

InitHashtags ==
    /\ args \in {[fn |-> f, content |-> t, platform |-> p] :
                    f \in {"extractHashtags", "generateOptimizedHashtags"},
                    t \in HashtagTexts, p \in Platforms}
    /\ ret = NoRet
    /\ called = ""
    /\ HandlerOff

CallExtractHashtags ==
    /\ called = ""
    /\ args.fn = "extractHashtags"
    /\ ret' = extractHashtags(args.content, args.platform)
    /\ called' = "extractHashtags"
    /\ UNCHANGED <<args, handlerVars>>

CallGenerateOptimizedHashtags ==
    /\ called = ""
    /\ args.fn = "generateOptimizedHashtags"
    /\ ret' = generateOptimizedHashtags(args.content, args.platform)
    /\ called' = "generateOptimizedHashtags"
    /\ UNCHANGED <<args, handlerVars>>

NextHashtags == CallExtractHashtags \/ CallGenerateOptimizedHashtags

SpecHashtags == InitHashtags /\ [][NextHashtags]_vars

InitAdapt ==
    /\ args \in {[fn |-> "adaptForPlatform", content |-> t, platform |-> p,
                   tone |-> tn] :
                    t \in AdaptTexts, p \in Platforms, tn \in Tones}
    /\ ret = NoRet
    /\ called = ""
    /\ HandlerOff

CallAdaptForPlatform ==
    /\ called = ""
    /\ args.fn = "adaptForPlatform"
    /\ ret' = adaptForPlatform(args.content, args.platform, args.tone)
    /\ called' = "adaptForPlatform"
    /\ UNCHANGED <<args, handlerVars>>

SpecAdapt == InitAdapt /\ [][CallAdaptForPlatform]_vars

\* Repeated calls of adaptForPlatform.  Each call runs in an environment,
\* the clock reading and the random draws at the time of the call; ret is
\* the sequence of the calls made so far, each with its arguments, its
\* environment and the string it returned.
MaxCalls == 3       \* the calls made in a run of repeated calls
Envs == { [now |-> [hour |-> 9, day |-> 2], draws |-> <<0, 0, 0>>],
          [now |-> [hour |-> 23, day |-> 0], draws |-> <<999, 999, 999>>] }
RepeatLengths == {0, 199, 241}
RepeatTexts == {PadTo(t, n) : t \in Concats(AdaptPieces, 1), n \in RepeatLengths}
AdaptArgs(content, platform, tone) ==
    [fn |-> "adaptForPlatform", content |-> content, platform |-> platform,
     tone |-> tone]
\* the arguments of the calls made between the calls under test
OtherArgs == AdaptArgs(<<"c","o","o","l","!">>, "twitter", Str("professional"))

\* (a variant whose short-form prompt is picked by a random draw)
AdaptInRandomPrompt(env, content, platform, tone) ==
    LET adapted == adaptForPlatform(content, platform, tone)
    IN  IF platform = "twitter" /\ Len(adapted) < 200
        THEN adapted \o <<" ">> \o questions[(env.draws[1] % 4) + 1]
        ELSE adapted

\* adaptForPlatform called in an environment: the function reads neither
\* the clock nor Math.random nor any variable outside its parameters, and
\* its regular expressions are created anew by each call
AdaptIn(env, content, platform, tone) == adaptForPlatform(content, platform, tone)

InitRepeat ==
    /\ args \in {AdaptArgs(t, p, tn) : t \in RepeatTexts, p \in Platforms, tn \in Tones}
    /\ ret = <<>>
    /\ called = ""
    /\ HandlerOff

CallAdaptInEnv ==
    /\ Len(ret) < MaxCalls
    /\ \E env \in Envs, a \in {args, OtherArgs} :
          ret' = Append(ret, [args |-> a, env |-> env,
                              value |-> AdaptIn(env, a.content, a.platform, a.tone)])
    /\ called' = "adaptForPlatform"
    /\ UNCHANGED <<args, handlerVars>>

SpecRepeat == InitRepeat /\ [][CallAdaptInEnv]_vars

SuggestionPieces ==
    { <<"g","o","o","d"," ">>, <<"b","a","d"," ">>, <<"A","m","a","z","i","n","g"," ">>,
      <<"a","m","a","z","i","n","g","l","y"," ">>, <<"B","R","E","A","K","T","H","R","O","U","G","H">>,
      <<"?">>, <<"x", " ">> }
SuggestionExample ==
    <<"T","h","i","s"," ","i","s"," ","a"," ","g","r","e","a","t"," ","b","r","e","a","k","t","h","r","o","u","g","h"," ","f","o","r"," ","o","u","r"," ","t","e","a","m","!">>
SuggestionTexts == Concats(SuggestionPieces, MaxPieces) \cup {SuggestionExample}
\* sentiments other than the one of the text
OtherSentiments ==
    { [label |-> "positive", confidence |-> Rat(65, 100)],
      [label |-> "neutral", confidence |-> Rat(7, 10)],
      [label |-> "negative", confidence |-> Rat(95, 100)] }

InitSuggestions ==
    /\ args \in {[fn |-> "generateOptimizationSuggestions", content |-> t,
                   sentiment |-> sn] :
                    t \in SuggestionTexts,
                    sn \in OtherSentiments}
               \cup {[fn |-> "generateOptimizationSuggestions", content |-> t,
                       sentiment |-> analyzeSentiment(t)] : t \in SuggestionTexts}
    /\ ret = NoRet
    /\ called = ""
    /\ HandlerOff

CallGenerateOptimizationSuggestions ==
    /\ called = ""
    /\ args.fn = "generateOptimizationSuggestions"
    /\ ret' = generateOptimizationSuggestions(args.content, args.sentiment)
    /\ called' = "generateOptimizationSuggestions"
    /\ UNCHANGED <<args, handlerVars>>

SpecSuggestions ==
    InitSuggestions /\ [][CallGenerateOptimizationSuggestions]_vars

\* every reading of the clock: getHours() and getDay() (0 is Sunday)
AllClockReadings == {[hour |-> h, day |-> d] : h \in 0..23, d \in 0..6}

InitPostingTime ==
    /\ args \in {[fn |-> "getOptimalPostingTime", platform |-> p, now |-> now] :
                    p \in Platforms, now \in AllClockReadings}
    /\ ret = NoRet
    /\ called = ""
    /\ HandlerOff

CallGetOptimalPostingTime ==
    /\ called = ""
    /\ args.fn = "getOptimalPostingTime"
    /\ ret' = getOptimalPostingTime(args.platform, args.now)
    /\ called' = "getOptimalPostingTime"
    /\ UNCHANGED <<args, handlerVars>>

SpecPostingTime == InitPostingTime /\ [][CallGetOptimalPostingTime]_vars

InitForecast ==
    /\ args \in {[fn |-> "predictEngagement", content |-> t, platform |-> p,
                   sentiment |-> [label |-> l]] :
                    t \in ForecastTexts, p \in Platforms, l \in SentimentLabels}
    /\ ret = NoRet
    /\ called = ""
    /\ HandlerOff

CallPredictEngagement ==
    /\ called = ""
    /\ args.fn = "predictEngagement"
    /\ LET baseScore == BaseScore(args.content, args.platform, args.sentiment)
       IN  \E draws \in DrawTriples, now \in ClockReadings :
              ret' = Forecast(baseScore, args.platform, draws, now)
    /\ called' = "predictEngagement"
    /\ UNCHANGED <<args, handlerVars>>

SpecForecast == InitForecast /\ [][CallPredictEngagement]_vars

\* The professional tone adjustment followed by the casual one, each as
\* adaptForPlatform applies it before the channel pass
TonePieces ==
    { <<"a","w","e","s","o","m","e"," ">>, <<"A","w","e","s","o","m","e"," ">>, <<"a","m","a","z","i","n","g"," ">>,
      <<"c","o","o","l">>, <<"E","x","c","e","l","l","e","n","t"," ">>, <<"c","o","o","l","e","s","t"," ">>,
      <<"x", " ">>, <<"!">>, <<".">> }
ToneTexts == Concats(TonePieces, MaxPieces)

InitTone ==
    /\ args \in {[fn |-> "tonePass", content |-> t] : t \in ToneTexts}
    /\ ret = NoRet
    /\ called = ""
    /\ HandlerOff

CallProfessionalPass ==
    /\ called = ""
    /\ args.fn = "tonePass"
    /\ ret' = TonePass(args.content, Str("professional"))
    /\ called' = "professional"
    /\ UNCHANGED <<args, handlerVars>>

CallCasualPass ==
    /\ called = "professional"
    /\ ret' = TonePass(ret, Str("casual"))
    /\ called' = "casual"
    /\ UNCHANGED <<args, handlerVars>>

NextTone == CallProfessionalPass \/ CallCasualPass
SpecTone == InitTone /\ [][NextTone]_vars

\* Repeated calls of predictEngagement, each in an environment; ret is the
\* sequence of the calls made so far, each with its environment and the
\* record it returned.
RepeatForecastTexts ==
    {PadTo(t, n) : t \in Concats(ForecastPieces, 1), n \in ForecastLengths}

\* (a variant whose engagement_score carries a jitter of the first draw)
ForecastInJitteredScore(env, content, platform, sentiment) ==
    LET baseScore == BaseScore(content, platform, sentiment)
    IN  [Forecast(baseScore, platform, env.draws, env.now)
            EXCEPT !.engagement_score = EngagementScore(baseScore + (env.draws[1] \div 500))]

\* predictEngagement called in an environment: Math.random() gives the
\* draws and new Date() the clock reading
ForecastIn(env, content, platform, sentiment) ==
    predictEngagement(content, platform, sentiment, env.draws, env.now)

InitRepeatForecast ==
    /\ args \in {[fn |-> "predictEngagement", content |-> t, platform |-> p,
                   sentiment |-> [label |-> l]] :
                    t \in RepeatForecastTexts, p \in Platforms, l \in SentimentLabels}
    /\ ret = <<>>
    /\ called = ""
    /\ HandlerOff

CallPredictEngagementInEnv ==
    /\ Len(ret) < MaxCalls
    /\ \E env \in Envs :
          ret' = Append(ret, [env |-> env,
                              value |-> ForecastIn(env, args.content, args.platform,
                                                   args.sentiment)])
    /\ called' = "predictEngagement"
    /\ UNCHANGED <<args, handlerVars>>

SpecRepeatForecast == InitRepeatForecast /\ [][CallPredictEngagementInEnv]_vars

\* The short-form text of a request: adapted, then optimized, as POST does
\* for optimizedTwitter
OptimizeStarts == { <<>>, <<"?">>, <<"#">>, <<"#", "?">>, <<"a","w","e","s","o","m","e","!">> }
OptimizeLengths == {0, 199, 231, 240, 241, 300}
OptimizeTexts == {PadTo(t, n) : t \in OptimizeStarts, n \in OptimizeLengths}
OptimizeTones == { Undefined, Str("professional"), Str("enthusiastic") }
questionPicks == 0..3

InitOptimize ==
    /\ args \in {[fn |-> "adaptForPlatform", content |-> t, platform |-> "twitter",
                   tone |-> tn] : t \in OptimizeTexts, tn \in OptimizeTones}
    /\ ret = NoRet
    /\ called = ""
    /\ HandlerOff

CallOptimizeAdapted ==
    /\ called = "adaptForPlatform"
    /\ \E pick \in questionPicks :
          ret' = optimizeContentForEngagement(ret, args.platform, pick)
    /\ called' = "optimizeContentForEngagement"
    /\ UNCHANGED <<args, handlerVars>>

NextOptimize == CallAdaptForPlatform \/ CallOptimizeAdapted
SpecOptimize == InitOptimize /\ [][NextOptimize]_vars

\* Texts for the score: an optional first segment of 50 or 51 units closed
\* by ".", then one choice of each feature, then filler up to a total length
ScoreHeads == { <<>>, Pad(50) \o <<".">>, Pad(51) \o <<".">> }
ScoreActions == { <<>>, <<"L","i","k","e"," ">>, <<"l","i","k","e","l","y"," ">> }
ScoreTerms == { <<>>, <<"b","u","s","i","n","e","s","s"," ">>, <<"P","r","o","f","e","s","s","i","o","n","a","l"," ">> }
ScoreMarks == { <<>>, <<"#">>, <<"?", EmojiHigh, EmojiLow>>, <<EmojiLow, EmojiHigh>> }
ScoreLengths == {0, 70, 71, 98, 100, 101, 280, 281, 400}
ScoreTexts ==
    {PadTo(h \o a \o b \o c, n) :
        h \in ScoreHeads, a \in ScoreActions, b \in ScoreTerms,
        c \in ScoreMarks, n \in ScoreLengths}

InitScore ==
    /\ args \in {[fn |-> "predictEngagement", content |-> t, platform |-> p,
                   sentiment |-> [label |-> l]] :
                    t \in ScoreTexts, p \in Platforms, l \in SentimentLabels}
    /\ ret = NoRet
    /\ called = ""
    /\ HandlerOff

SpecScore == InitScore /\ [][CallPredictEngagement]_vars

(***************************************************************************)
(* POST: the route handler.  The body of a request is what request.json()  *)
(* yields: it rejects ("unparsable"), or gives a JSON value; an object     *)
(* carries content and tone, each a JSON value, the content of type string *)
(* holding a text.                                                         *)
(***************************************************************************)
Unparsable == [type |-> "unparsable"]
Null == [type |-> "null"]
Body(content, tone) == [type |-> "object", content |-> content, tone |-> tone]

HandlerTexts ==
    { <<"G","r","e","a","t"," ","n","e","w","s","."," ","W","e"," ","l","o","v","e"," ","t","e","c","h","!">>,
      <<"g","o","o","d"," ","b","a","d">>,
      <<"i","n","n","o","v","a","t","i","o","n"," ">>,
      <<"I","s"," ","t","h","i","s"," ","a","m","a","z","i","n","g","?">>,
      <<"o","n","e"," ","t","w","o"," ","t","h","r","e","e"," ","f","o","u","r"," ","f","i","v","e"," ","s","i","x"," ","s","e","v","e","n"," ","e","i","g","h","t"," ","n","i","n","e","."," ","t","e","n">>,
      Pad(300) }
BlankTexts == { <<>>, <<" ">>, <<" ", "\n", "\t">> }
HandlerContents ==
    {Undefined, Null, Num(0), Num(5)} \cup {Str(t) : t \in BlankTexts \cup HandlerTexts}
HandlerTones == {Undefined, Str("professional"), Num(0), Num(5)}
Requests ==
    {Unparsable, Null, Num(5)}
    \cup {Body(c, tn) : c \in HandlerContents, tn \in HandlerTones}
Routes == {"optimized", "baseline"}
\* Date.now() - startTime, in milliseconds
ElapsedMs == {0, 12}

\* reading a property of the parsed body (undefined on a primitive)
Field(body, name) == IF body.type = "object" THEN body[name] ELSE Undefined
\* body.content of null or undefined is a TypeError
FieldThrows(body) == body.type = "null"

\* !body.content, for a content that is a text when it is a string
Falsy(v) ==
    CASE v.type = "undefined" -> TRUE
      [] v.type = "null" -> TRUE
      [] v.type = "string" -> Len(v.value) = 0
      [] v.type = "number" -> v.value = 0
      [] OTHER -> FALSE

\* String.prototype.trim().length === 0
TrimIsEmpty(t) == \A i \in DOMAIN t : t[i] \in Whitespace

\* (a variant of the test that does not trim)
IsBlankNoTrim(content) == Falsy(content)

\* !body.content || body.content.trim().length === 0
IsBlank(content) == Falsy(content) \/ TrimIsEmpty(content.value)

\* body.content.trim is not a function: a truthy content that is no string
TrimThrows(content) == ~Falsy(content) /\ content.type # "string"

At(step, platform) == [step |-> step, platform |-> platform]
Done == At("done", "")

\* the statement after the call for a platform in a group of three calls
After(step, platform, then) ==
    CASE platform = "twitter" -> At(step, "linkedin")
      [] platform = "linkedin" -> At(step, "newsletter")
      [] OTHER -> then

ForecastVar(platform) ==
    CASE platform = "twitter" -> "twitterForecast"
      [] platform = "linkedin" -> "linkedinForecast"
      [] OTHER -> "newsletterForecast"
ContentVar(platform) ==
    CASE platform = "twitter" -> "twitterContent"
      [] platform = "linkedin" -> "linkedinContent"
      [] OTHER -> "newsletterContent"
OptimizedVar(platform) ==
    CASE platform = "twitter" -> "optimizedTwitter"
      [] platform = "linkedin" -> "optimizedLinkedIn"
      [] OTHER -> "optimizedNewsletterSubject"

Call(fn, platform, input, output) ==
    [fn |-> fn, platform |-> platform, input |-> input, output |-> output]

ContentRequired == [status |-> 400, body |-> [error |-> "Content is required"]]

\* (a variant of the catch block that returns what was computed so far)
CatchReturnsPartial(computed) == [status |-> 200, body |-> computed]

\* catch (error) { ... return NextResponse.json({error}, {status: 500}) }
CatchResponse(computed) ==
    [status |-> 500, body |-> [error |-> "Internal server error"]]

\* content.split(".")[0].substring(0, 50) + (content.length > 50 ? "..." : "")
SubjectLine(content) ==
    Substring(FirstSegment(content), 50)
    \o (IF Len(content) > 50 THEN Ellipsis ELSE <<>>)

ContentType(content) == IF Len(content) > 500 THEN "long-form" ELSE "short-form"

Metadata(l, elapsed) ==
    [ processing_time |-> elapsed,
      content_type |-> ContentType(l.content),
      language |-> "en",
      readability_score |-> calculateReadability(l.content) ]

\* the result object of the richer route
OptimizedResult(l, elapsed) ==
    [ original_content |-> l.content,
      sentiment |-> l.sentiment,
      engagement_forecast |->
          [ twitter |-> l.twitterForecast,
            linkedin |-> l.linkedinForecast,
            newsletter |-> l.newsletterForecast ],
      optimization_suggestions |-> l.optimizationSuggestions,
      platforms |->
          [ twitter |->
                [ content |-> l.twitterContent,
                  hashtags |-> generateOptimizedHashtags(l.content, "twitter"),
                  character_count |-> Len(l.twitterContent),
                  optimized_content |-> l.optimizedTwitter ],
            linkedin |->
                [ content |-> l.linkedinContent,
                  hashtags |-> generateOptimizedHashtags(l.content, "linkedin"),
                  character_count |-> Len(l.linkedinContent),
                  optimized_content |-> l.optimizedLinkedIn ],
            newsletter |->
                [ content |-> l.newsletterContent,
                  subject_line |-> SubjectLine(l.content),
                  word_count |-> SplitLength(l.newsletterContent, "s"),
                  optimized_subject |-> l.optimizedNewsletterSubject ] ],
      metadata |-> Metadata(l, elapsed) ]

\* the result object of the baseline route
BaselineResult(l, elapsed) ==
    [ original_content |-> l.content,
      sentiment |-> l.sentiment,
      platforms |->
          [ twitter |->
                [ content |-> l.twitterContent,
                  hashtags |-> extractHashtags(l.content, "twitter"),
                  character_count |-> Len(l.twitterContent) ],
            linkedin |->
                [ content |-> l.linkedinContent,
                  hashtags |-> extractHashtags(l.content, "linkedin"),
                  character_count |-> Len(l.linkedinContent) ],
            newsletter |->
                [ content |-> l.newsletterContent,
                  subject_line |-> SubjectLine(l.content),
                  word_count |-> SplitLength(l.newsletterContent, "s") ] ],
      metadata |-> Metadata(l, elapsed) ]

\* the hashtag call the result object makes for a platform
HashtagCall(r, content, platform) ==
    IF r = "optimized"
    THEN Call("generateOptimizedHashtags", platform, content,
              generateOptimizedHashtags(content, platform))
    ELSE Call("extractHashtags", platform, content,
              extractHashtags(content, platform))

Init ==
    /\ args = NoRet
    /\ ret = NoRet
    /\ called = ""
    /\ pc = At("start", "")
    /\ route \in Routes
    /\ request \in Requests
    /\ clock \in ClockReadings
    /\ locals = [startTime |-> 0]
    /\ thrown = ""
    /\ response = NoResponse
    /\ log = <<>>
    /\ parked = <<>>
    /\ current = 0
    /\ Mounted

\* const startTime = Date.now(); the handler then awaits request.json()
Start ==
    /\ pc = At("start", "")
    /\ pc' = At("json", "")
    /\ UNCHANGED <<args, ret, called, pageVars, parked, current, route, request, clock, locals, thrown,
                   response, log>>

\* const body = await request.json()
ParseJson ==
    /\ pc = At("json", "")
    /\ IF request.type = "unparsable"
       THEN /\ thrown' = "request.json"
            /\ pc' = At("catch", "")
       ELSE /\ thrown' = thrown
            /\ pc' = At("validate", "")
    /\ UNCHANGED <<args, ret, called, pageVars, parked, current, route, request, clock, locals,
                   response, log>>

\* if (!body.content || body.content.trim().length === 0) return 400
\* const { content, target_audience, tone } = body
Validate ==
    /\ pc = At("validate", "")
    /\ IF FieldThrows(request) \/ TrimThrows(Field(request, "content"))
       THEN /\ thrown' = "body.content"
            /\ pc' = At("catch", "")
            /\ UNCHANGED <<locals, response>>
       ELSE IF IsBlank(Field(request, "content"))
       THEN /\ response' = ContentRequired
            /\ pc' = Done
            /\ UNCHANGED <<locals, thrown>>
       ELSE /\ locals' = locals @@ [content |-> request.content.value,
                                    tone |-> request.tone]
            /\ pc' = At("sentiment", "")
            /\ UNCHANGED <<response, thrown>>
    /\ UNCHANGED <<args, ret, called, pageVars, parked, current, route, request, clock, log>>

\* const sentiment = analyzeSentiment(content)
Sentiment ==
    /\ pc = At("sentiment", "")
    /\ LET sentiment == analyzeSentiment(locals.content)
       IN  /\ locals' = locals @@ [sentiment |-> sentiment]
           /\ log' = Append(log, Call("analyzeSentiment", "", locals.content,
                                      sentiment))
    /\ pc' = IF route = "optimized" THEN At("forecast", "twitter")
             ELSE At("adapt", "twitter")
    /\ UNCHANGED <<args, ret, called, pageVars, parked, current, route, request, clock, thrown, response>>

\* const <platform>Forecast = predictEngagement(content, platform, sentiment)
PredictEngagement(platform) ==
    /\ pc = At("forecast", platform)
    /\ LET baseScore == BaseScore(locals.content, platform, locals.sentiment)
       IN  \E draws \in DrawTriples :
              LET forecast == Forecast(baseScore, platform, draws, clock)
              IN  /\ locals' = locals @@ (ForecastVar(platform) :> forecast)
                  /\ log' = Append(log, Call("predictEngagement", platform,
                                             locals.content, forecast))
    /\ pc' = After("forecast", platform, At("adapt", "twitter"))
    /\ UNCHANGED <<args, ret, called, pageVars, parked, current, route, request, clock, thrown, response>>

\* const <platform>Content = adaptForPlatform(content, platform, audience, tone)
AdaptForPlatform(platform) ==
    /\ pc = At("adapt", platform)
    /\ IF ToneThrows(locals.tone)
       THEN /\ thrown' = "adaptForPlatform"
            /\ pc' = At("catch", "")
            /\ UNCHANGED <<locals, log>>
       ELSE LET adapted == adaptForPlatform(locals.content, platform, locals.tone)
            IN  /\ locals' = locals @@ (ContentVar(platform) :> adapted)
                /\ log' = Append(log, Call("adaptForPlatform", platform,
                                           locals.content, adapted))
                /\ pc' = After("adapt", platform,
                               IF route = "optimized" THEN At("optimize", "twitter")
                               ELSE At("respond", ""))
                /\ thrown' = thrown
    /\ UNCHANGED <<args, ret, called, pageVars, parked, current, route, request, clock, response>>

\* the text handed to optimizeContentForEngagement for a platform
OptimizeInput(l, platform) ==
    CASE platform = "twitter" -> l.twitterContent
      [] platform = "linkedin" -> l.linkedinContent
      [] OTHER -> l.content

\* const optimized... = optimizeContentForEngagement(..., platform, sentiment)
OptimizeContent(platform) ==
    /\ pc = At("optimize", platform)
    /\ \E pick \in 0..3 :
          LET input == OptimizeInput(locals, platform)
              optimized == optimizeContentForEngagement(input, platform, pick)
          IN  /\ locals' = locals @@ (OptimizedVar(platform) :> optimized)
              /\ log' = Append(log, Call("optimizeContentForEngagement",
                                         platform, input, optimized))
    /\ pc' = After("optimize", platform, At("suggest", ""))
    /\ UNCHANGED <<args, ret, called, pageVars, parked, current, route, request, clock, thrown, response>>

\* const optimizationSuggestions = generateOptimizationSuggestions(...)
Suggest ==
    /\ pc = At("suggest", "")
    /\ LET suggestions == generateOptimizationSuggestions(locals.content,
                                                         locals.sentiment)
       IN  /\ locals' = locals @@ [optimizationSuggestions |-> suggestions]
           /\ log' = Append(log, Call("generateOptimizationSuggestions", "",
                                      locals.content, suggestions))
    /\ pc' = At("respond", "")
    /\ UNCHANGED <<args, ret, called, pageVars, parked, current, route, request, clock, thrown, response>>

\* const result = {...}; return NextResponse.json(result)
Respond ==
    /\ pc = At("respond", "")
    /\ \E elapsed \in ElapsedMs :
          response' = [status |-> 200,
                       body |-> IF route = "optimized"
                                THEN OptimizedResult(locals, elapsed)
                                ELSE BaselineResult(locals, elapsed)]
    /\ log' = log \o
              << HashtagCall(route, locals.content, "twitter"),
                 HashtagCall(route, locals.content, "linkedin"),
                 Call("calculateReadability", "", locals.content,
                      calculateReadability(locals.content)) >>
    /\ pc' = Done
    /\ UNCHANGED <<args, ret, called, pageVars, parked, current, route, request, clock, locals, thrown>>

\* the catch block of the handler
Catch ==
    /\ pc = At("catch", "")
    /\ response' = CatchResponse(locals)
    /\ pc' = Done
    /\ UNCHANGED <<args, ret, called, pageVars, parked, current, route, request, clock, locals, thrown, log>>

Next ==
    \/ Start
    \/ ParseJson
    \/ Validate
    \/ Sentiment
    \/ \E platform \in Platforms : PredictEngagement(platform)
    \/ \E platform \in Platforms : AdaptForPlatform(platform)
    \/ \E platform \in Platforms : OptimizeContent(platform)
    \/ Suggest
    \/ Respond
    \/ Catch

Spec == Init /\ [][Next]_vars

(***************************************************************************)
(* Concurrent requests.  Each invocation of POST has its own request and   *)
(* its own local constants; the module of the route declares no variable.  *)
(* The steps of the invocations are interleaved: the running invocation    *)
(* takes steps of the handler, and at any point another one may run on.    *)
(***************************************************************************)
RequestIds == {1, 2}

\* the state of the invocation that is running
Context ==
    [ pc |-> pc, route |-> route, request |-> request, clock |-> clock,
      locals |-> locals, thrown |-> thrown, response |-> response, log |-> log ]

NewContext(r, req, now) ==
    [ pc |-> At("start", ""), route |-> r, request |-> req, clock |-> now,
      locals |-> [startTime |-> 0], thrown |-> "", response |-> NoResponse,
      log |-> <<>> ]

ConcurrentContexts ==
    { NewContext("optimized", Body(Str(<<"G","r","e","a","t"," ","t","e","c","h","."," ","A","w","e","s","o","m","e","!">>), Str("professional")),
                 [hour |-> 9, day |-> 2]),
      NewContext("baseline", Body(Str(<<"i","n","n","o","v","a","t","i","o","n"," ">>), Undefined),
                 [hour |-> 23, day |-> 0]),
      NewContext("optimized", Body(Str(<<"g","o","o","d"," ","b","a","d">>), Num(5)),
                 [hour |-> 9, day |-> 2]),
      NewContext("optimized", Body(Str(<<" ">>), Undefined),
                 [hour |-> 23, day |-> 0]) }

\* the entry of the running invocation in parked
Running == [pc |-> "running"]

\* (a variant in which the local constants are variables of the module,
\* shared by the invocations)
ResumeWithSharedLocals(saved) == [saved EXCEPT !.locals = locals]

\* the state an invocation runs on with is the state it was left in
Resume(saved) == saved

InitConcurrent ==
    /\ args = NoRet
    /\ ret = NoRet
    /\ called = ""
    /\ current = 1
    /\ Mounted
    /\ \E first \in ConcurrentContexts, others \in [RequestIds -> ConcurrentContexts] :
          /\ parked = [others EXCEPT ![1] = Running]
          /\ pc = first.pc
          /\ route = first.route
          /\ request = first.request
          /\ clock = first.clock
          /\ locals = first.locals
          /\ thrown = first.thrown
          /\ response = first.response
          /\ log = first.log

\* the running invocation is left and invocation id runs on
Switch(id) ==
    /\ current \in RequestIds
    /\ id # current
    /\ parked' = [parked EXCEPT ![current] = Context, ![id] = Running]
    /\ current' = id
    /\ LET c == Resume(parked[id])
       IN  /\ pc' = c.pc
           /\ route' = c.route
           /\ request' = c.request
           /\ clock' = c.clock
           /\ locals' = c.locals
           /\ thrown' = c.thrown
           /\ response' = c.response
           /\ log' = c.log
    /\ UNCHANGED <<args, ret, called, pageVars>>

NextConcurrent ==
    \/ Next
    \/ \E id \in RequestIds : Switch(id)

SpecConcurrent == InitConcurrent /\ [][NextConcurrent]_vars

(***************************************************************************)
(* The page: ContentPipelineInterface.  An event handler runs to its first *)
(* await in one step; what follows an await runs in a later step, when the *)
(* promise settles.  The page is rendered anew from its state before the   *)
(* next event is handled, so what a button shows and whether it is         *)
(* disabled is a function of the state.                                    *)
(***************************************************************************)
MaxInvocations == 3     \* the invocations of handleProcess in a run
MaxCopies == 2          \* the invocations of copyToClipboard in a run
MaxSeconds == 3         \* the time a run of copies lasts
CopiedDelay == 2        \* setTimeout(..., 2000), in seconds

PageContents == { <<>>, <<" ">>, <<"h", "i">>, <<"g", "o", "!">> }
serverVars == <<args, ret, called, pc, route, request, clock, locals, thrown,
                response, log, parked, current>>

\* the body of the OK response to the request of invocation i
Data(i) == [request |-> i]

\* an invocation that is at an await
Pending(i) == invocations[i].pos \in {"fetch", "json"}

\* onChange of the input field: setContent(e.target.value)
TypeContent(t) ==
    /\ t # contentInput
    /\ contentInput' = t
    /\ UNCHANGED <<serverVars, isProcessing, result, copiedPlatform, invocations,
                   copies, seconds>>

\* (a variant of the button that is disabled for blank content alone)
ButtonEnabledWhileProcessing == NonBlank(contentInput)

\* the process button: disabled={!content.trim() || isProcessing}
ButtonEnabled == NonBlank(contentInput) /\ ~isProcessing

\* handleProcess up to its first await: the early return for blank content,
\* or setIsProcessing(true) and the fetch of the request, whose body holds
\* the content
HandleProcess ==
    /\ Len(invocations) < MaxInvocations
    /\ IF ~NonBlank(contentInput)
       THEN /\ invocations' = Append(invocations, [pos |-> "returned",
                                                   content |-> contentInput])
            /\ UNCHANGED isProcessing
       ELSE /\ invocations' = Append(invocations, [pos |-> "fetch",
                                                   content |-> contentInput])
            /\ isProcessing' = TRUE
    /\ UNCHANGED <<serverVars, contentInput, result, copiedPlatform, copies, seconds>>

\* onClick of the process button
ClickProcess == ButtonEnabled /\ HandleProcess

\* handleProcess called with whatever the content is, once the invocation
\* before it has finished
CallHandleProcess ==
    /\ \A i \in DOMAIN invocations : ~Pending(i)
    /\ HandleProcess

\* (a variant of the catch and finally blocks without the finally block)
CaughtWithoutFinally(i) ==
    /\ invocations' = [invocations EXCEPT ![i].pos = "failed"]
    /\ UNCHANGED <<serverVars, contentInput, isProcessing, result, copiedPlatform,
                   copies, seconds>>

\* (a variant of the catch block that calls setResult(null))
CaughtClearsResult(i) ==
    /\ invocations' = [invocations EXCEPT ![i].pos = "failed"]
    /\ isProcessing' = FALSE
    /\ result' = NoResult
    /\ UNCHANGED <<serverVars, contentInput, copiedPlatform, copies, seconds>>

\* an error thrown in the try block of invocation i: the catch block logs
\* it and the finally block calls setIsProcessing(false)
Caught(i) ==
    /\ invocations' = [invocations EXCEPT ![i].pos = "failed"]
    /\ isProcessing' = FALSE
    /\ UNCHANGED <<serverVars, contentInput, result, copiedPlatform, copies, seconds>>

\* the fetch of invocation i resolves with a response: an OK response is
\* read (await response.json()), any other throws
FetchResolves(i, ok) ==
    /\ i \in DOMAIN invocations
    /\ invocations[i].pos = "fetch"
    /\ IF ok
       THEN /\ invocations' = [invocations EXCEPT ![i].pos = "json"]
            /\ UNCHANGED <<serverVars, contentInput, isProcessing, result,
                           copiedPlatform, copies, seconds>>
       ELSE Caught(i)

\* the fetch of invocation i rejects: a network error
FetchRejects(i) ==
    /\ i \in DOMAIN invocations
    /\ invocations[i].pos = "fetch"
    /\ Caught(i)

\* response.json() of invocation i resolves: setResult(data), then the
\* finally block
JsonResolves(i) ==
    /\ i \in DOMAIN invocations
    /\ invocations[i].pos = "json"
    /\ result' = Data(i)
    /\ isProcessing' = FALSE
    /\ invocations' = [invocations EXCEPT ![i].pos = "resolved"]
    /\ UNCHANGED <<serverVars, contentInput, copiedPlatform, copies, seconds>>

\* response.json() of invocation i rejects: the body is no JSON
JsonRejects(i) ==
    /\ i \in DOMAIN invocations
    /\ invocations[i].pos = "json"
    /\ Caught(i)

Settle ==
    \E i \in 1..MaxInvocations :
        \/ \E ok \in BOOLEAN : FetchResolves(i, ok)
        \/ FetchRejects(i)
        \/ JsonResolves(i)
        \/ JsonRejects(i)

InitPage ==
    /\ args = NoRet
    /\ ret = NoRet
    /\ called = ""
    /\ HandlerOff

\* the page used through its input field and its process button
NextPage ==
    \/ \E t \in PageContents : TypeContent(t)
    \/ ClickProcess
    \/ Settle

SpecPage == InitPage /\ [][NextPage]_vars

\* handleProcess called one invocation after the other; a request that was
\* sent is answered or fails
NextPageCalls ==
    \/ \E t \in PageContents : TypeContent(t)
    \/ CallHandleProcess
    \/ Settle

SpecPageCalls == InitPage /\ [][NextPageCalls]_vars /\ WF_vars(Settle)

\* The copy buttons, which the page shows once it has a result.  A copy is
\* at "write" (await navigator.clipboard.writeText), at "timer" (its timer
\* is set and due at a second), at "cleared" (its timer has fired) or at
\* "failed"; timer is the number setTimeout returned, counted from 1.
Timers == {i \in DOMAIN copies : copies[i].timer > 0}

\* onClick of a copy button: copyToClipboard(content, platform)
ClickCopy(platform) ==
    /\ result # NoResult
    /\ Len(copies) < MaxCopies
    /\ copies' = Append(copies, [platform |-> platform, pos |-> "write",
                                 timer |-> 0, due |-> 0])
    /\ UNCHANGED <<serverVars, contentInput, isProcessing, result, copiedPlatform,
                   invocations, seconds>>

\* writeText resolves: setCopiedPlatform(platform) and setTimeout
WriteResolves(i) ==
    /\ i \in DOMAIN copies
    /\ copies[i].pos = "write"
    /\ copiedPlatform' = copies[i].platform
    /\ copies' = [copies EXCEPT ![i].pos = "timer",
                                ![i].timer = Cardinality(Timers) + 1,
                                ![i].due = seconds + CopiedDelay]
    /\ UNCHANGED <<serverVars, contentInput, isProcessing, result, invocations,
                   seconds>>

\* writeText rejects: the catch block logs the error
WriteRejects(i) ==
    /\ i \in DOMAIN copies
    /\ copies[i].pos = "write"
    /\ copies' = [copies EXCEPT ![i].pos = "failed"]
    /\ UNCHANGED <<serverVars, contentInput, isProcessing, result, copiedPlatform,
                   invocations, seconds>>

\* the timer of copy i fires: setCopiedPlatform(null)
TimerFires(i) ==
    /\ i \in DOMAIN copies
    /\ copies[i].pos = "timer"
    /\ copies[i].due <= seconds
    /\ copiedPlatform' = NullPlatform
    /\ copies' = [copies EXCEPT ![i].pos = "cleared"]
    /\ UNCHANGED <<serverVars, contentInput, isProcessing, result, invocations,
                   seconds>>

\* a second passes; a timer that is due fires before the next second
Tick ==
    /\ seconds < MaxSeconds
    /\ \A i \in DOMAIN copies : copies[i].pos = "timer" => copies[i].due > seconds
    /\ seconds' = seconds + 1
    /\ UNCHANGED <<serverVars, contentInput, isProcessing, result, copiedPlatform,
                   invocations, copies>>

\* the page after one request that was answered with an OK response
InitCopy ==
    /\ args = NoRet
    /\ ret = NoRet
    /\ called = ""
    /\ pc = "off"
    /\ route = ""
    /\ request = [type |-> "none"]
    /\ clock = [hour |-> 0, day |-> 0]
    /\ locals = [startTime |-> 0]
    /\ thrown = ""
    /\ response = NoResponse
    /\ log = <<>>
    /\ parked = <<>>
    /\ current = 0
    /\ contentInput = <<"h", "i">>
    /\ isProcessing = FALSE
    /\ result = Data(1)
    /\ copiedPlatform = NullPlatform
    /\ invocations = <<[pos |-> "resolved", content |-> <<"h", "i">>]>>
    /\ copies = <<>>
    /\ seconds = 0

NextCopy ==
    \/ \E platform \in Platforms : ClickCopy(platform)
    \/ \E i \in 1..MaxCopies :
          \/ WriteResolves(i)
          \/ WriteRejects(i)
          \/ TimerFires(i)
    \/ Tick

SpecCopy == InitCopy /\ [][NextCopy]_vars

(***************************************************************************)
(* Properties of the Sentiment Classifier.                                 *)
(***************************************************************************)
\* The number of tokens of t that match a word of the lexicon
LexiconHits(t, lexicon) ==
    Cardinality({i \in 1..Len(t) : \E w \in lexicon : WholeWordAt(t, w, i)})

\* C7: with p positive and n negative lexicon hits, the classifier returns
\* {neutral, 0.5} when p = n = 0, {positive, min(0.95, 0.6 + 0.4 p/(p+n))}
\* when p > n, {negative, min(0.95, 0.6 + 0.4 n/(p+n))} when n > p, and
\* {neutral, 0.7} when p = n > 0: the label is a function of (p, n).
C7_SentimentPolicy ==
    called = "analyzeSentiment" =>
        LET p == LexiconHits(args.text, positiveWords)
            n == LexiconHits(args.text, negativeWords)
            expected(k) == RatMin(Rat(95, 100), Rat(6 * (p + n) + 4 * k, 10 * (p + n)))
        IN  /\ (p = 0 /\ n = 0) =>
                ret.label = "neutral" /\ RatEq(ret.confidence, Rat(1, 2))
            /\ p > n =>
                ret.label = "positive" /\ RatEq(ret.confidence, expected(p))
            /\ n > p =>
                ret.label = "negative" /\ RatEq(ret.confidence, expected(n))
            /\ (p = n /\ p > 0) =>
                ret.label = "neutral" /\ RatEq(ret.confidence, Rat(7, 10))

\* C7 witness: a classified text with hits of both polarities, more positive
\* than negative, whose confidence is strictly between 0.8 and 0.95; and the
\* tie of non-zero counts is a separate state (C7_WitnessTie).
C7_Witness ==
    /\ called = "analyzeSentiment"
    /\ LexiconHits(args.text, positiveWords) = 2
    /\ LexiconHits(args.text, negativeWords) = 1
    /\ ret.label = "positive"
    /\ RatEq(ret.confidence, Rat(13, 15))

C7_WitnessTie ==
    /\ called = "analyzeSentiment"
    /\ LexiconHits(args.text, positiveWords) = 1
    /\ LexiconHits(args.text, negativeWords) = 1
    /\ ret = [label |-> "neutral", confidence |-> Rat(7, 10)]

\* C8: the sentiment confidence lies in [0.5, 0.95], so it is never 1.0,
\* also when every lexicon hit has the same polarity.
C8_ConfidenceRange ==
    called = "analyzeSentiment" =>
        /\ RatLeq(Rat(1, 2), ret.confidence)
        /\ RatLeq(ret.confidence, Rat(95, 100))
        /\ ~RatEq(ret.confidence, Rat(1, 1))

\* C8 witness: every hit is positive (the uncapped value would be 1.0) and
\* the confidence returned is 0.95.
C8_Witness ==
    /\ called = "analyzeSentiment"
    /\ LexiconHits(args.text, positiveWords) = 2
    /\ LexiconHits(args.text, negativeWords) = 0
    /\ RatEq(ret.confidence, Rat(95, 100))

(***************************************************************************)
(* Properties of the Readability Scorer.                                   *)
(***************************************************************************)
\* The number of sentence fragments of t: maximal runs of units other than
\* . ! ? that hold a unit that is not whitespace
SentenceFragments(t) ==
    Cardinality({i \in DOMAIN t :
        /\ t[i] \notin SentenceEnd
        /\ i = 1 \/ t[i - 1] \in SentenceEnd
        /\ \E j \in i..Len(t) :
              /\ t[j] \notin Whitespace
              /\ \A k \in i..j : t[k] \notin SentenceEnd})

\* C5 as stated: empty text and text of a single sentence fragment score
\* exactly 50.
C5_Original ==
    (/\ called = "calculateReadability"
     /\ (args.text = <<>> \/ SentenceFragments(args.text) = 1))
        => ret = 50

\* C5 as amended: text without any sentence fragment (empty, whitespace
\* only, punctuation only) scores exactly 50.
C5_NeutralDefault ==
    (/\ called = "calculateReadability"
     /\ \A i \in DOMAIN args.text : args.text[i] \in Whitespace \cup SentenceEnd)
        => ret = 50

\* C5 witness: the empty text was scored, and scored 50.
C5_Witness ==
    /\ called = "calculateReadability"
    /\ args.text = <<>>
    /\ ret = 50

\* C9: the readability score of every text is an integer in [0, 100].
C9_ReadabilityRange ==
    called = "calculateReadability" => ret \in 0..100

\* C9 witness: a text whose unclamped score exceeds 100 scored 100.
C9_Witness ==
    /\ called = "calculateReadability"
    /\ calculateReadabilityUnclamped(args.text) > 100
    /\ ret = 100

\* C9 witness of the lower end: an unclamped score below 0 scored 0.
C9_WitnessLow ==
    /\ called = "calculateReadability"
    /\ calculateReadabilityUnclamped(args.text) < 0
    /\ ret = 0

(***************************************************************************)
(* Properties of the Hashtag Deriver.                                      *)
(***************************************************************************)
NoDuplicates(arr) ==
    \A i, j \in DOMAIN arr : i # j => arr[i] # arr[j]

\* C1: the list returned by either hashtag policy has at most 5 entries
\* and no duplicate entry.
C1_HashtagsCappedUnique ==
    called \in {"extractHashtags", "generateOptimizedHashtags"} =>
        Len(ret) <= 5 /\ NoDuplicates(ret)

\* C1, the part the optimized policy meets: at most 5 entries, no duplicate.
C1_OptimizedCappedUnique ==
    called = "generateOptimizedHashtags" => Len(ret) <= 5 /\ NoDuplicates(ret)

\* C1, the part the baseline policy meets: at most 5 entries.
C1_BaselineCapped ==
    called = "extractHashtags" => Len(ret) <= 5

\* the content-based tags the baseline policy finds in a text
C16_ContentTags(content) ==
    ContentTags(LongWords(Split(toLowerCase(content), "W")))

\* C16: the baseline list is the content-based tags followed by the first
\* tags of the channel's list; with fewer than 5 content-based tags and a
\* non-empty channel list it has 5 entries; for the digest it is the
\* content-based tags alone.
C16_FillsUpToFive ==
    called = "extractHashtags" =>
        LET tags == C16_ContentTags(args.content)
            k == Len(tags)
            channel == TagsOf(commonHashtags, args.platform)
        IN  /\ Len(ret) >= k
            /\ SubSeq(ret, 1, k) = tags
            /\ SubSeq(ret, k + 1, Len(ret)) = SubSeq(channel, 1, Len(ret) - k)
            /\ (k < 5 /\ channel # <<>>) => Len(ret) = 5
            /\ args.platform = "newsletter" => ret = tags

\* C16, the part the baseline policy meets: content-based tags first, then
\* the first tags of the channel's list, none for the digest
C16_ContentTagsFirst ==
    called = "extractHashtags" =>
        LET tags == C16_ContentTags(args.content)
            k == Len(tags)
            channel == TagsOf(commonHashtags, args.platform)
        IN  /\ Len(ret) >= k
            /\ SubSeq(ret, 1, k) = tags
            /\ SubSeq(ret, k + 1, Len(ret)) = SubSeq(channel, 1, Len(ret) - k)
            /\ args.platform = "newsletter" => ret = tags

\* t holds the word w as a whole word, in any letter case
C20_HasWord(t, w) == \E i \in DOMAIN t : WholeWordAt(t, w, i)

\* C20: in the baseline policy a text holding a trigger word holds the tag
\* of its topic: technology or tech gives #technology, business gives
\* #business, innovation gives #innovation, ai or artificial gives #ai.
C20_TriggersYieldTags ==
    called = "extractHashtags" =>
        /\ (C20_HasWord(args.content, <<"t","e","c","h","n","o","l","o","g","y">>)
            \/ C20_HasWord(args.content, <<"t","e","c","h">>))
               => Includes(ret, "#technology")
        /\ C20_HasWord(args.content, <<"b","u","s","i","n","e","s","s">>) => Includes(ret, "#business")
        /\ C20_HasWord(args.content, <<"i","n","n","o","v","a","t","i","o","n">>) => Includes(ret, "#innovation")
        /\ (C20_HasWord(args.content, <<"a","i">>)
            \/ C20_HasWord(args.content, <<"a","r","t","i","f","i","c","i","a","l">>))
               => Includes(ret, "#ai")

\* C20, the part the baseline policy meets: the trigger words of more than
\* three letters
C20_LongTriggersYieldTags ==
    called = "extractHashtags" =>
        /\ (C20_HasWord(args.content, <<"t","e","c","h","n","o","l","o","g","y">>)
            \/ C20_HasWord(args.content, <<"t","e","c","h">>))
               => Includes(ret, "#technology")
        /\ C20_HasWord(args.content, <<"b","u","s","i","n","e","s","s">>) => Includes(ret, "#business")
        /\ C20_HasWord(args.content, <<"i","n","n","o","v","a","t","i","o","n">>) => Includes(ret, "#innovation")
        /\ C20_HasWord(args.content, <<"a","r","t","i","f","i","c","i","a","l">>) => Includes(ret, "#ai")

(***************************************************************************)
(* Properties of the Channel Adapter.                                      *)
(***************************************************************************)
\* the first n units of t
Prefix(t, n) == [i \in 1..n |-> t[i]]

C11_Starts(t) == {i \in DOMAIN t : \E w \in CasualWords : WholeWordAt(t, w, i)}

\* the number of units of the whole word of t that starts at m
C11_WordLength(t, m) ==
    IF LowerChar(t[m]) = "c" THEN 4 ELSE 7

\* T is t with every "!" replaced by "." and every whole word awesome,
\* amazing, cool replaced by excellent: a unit outside these words is moved
\* right by the growth of the words before it, and each word is excellent
C11_IsProfessionalOf(T, t) ==
    LET starts == C11_Starts(t)
        shift(i) == 2 * Cardinality({m \in starts : m < i /\ C11_WordLength(t, m) = 7})
                    + 5 * Cardinality({m \in starts : m < i /\ C11_WordLength(t, m) = 4})
        inside(i) == \E m \in starts : m <= i /\ i < m + C11_WordLength(t, m)
    IN  /\ Len(T) = Len(t) + shift(Len(t) + 1)
        /\ \A i \in DOMAIN t :
              ~inside(i) => T[i + shift(i)] = (IF t[i] = "!" THEN "." ELSE t[i])
        /\ \A m \in starts :
              SubSeq(T, m + shift(m), m + shift(m) + 8) = EXCELLENT

\* the channel pass applied to the text T
C11_ChannelPass(T, platform) ==
    CASE platform = "twitter" ->
            IF Len(T) > 240 THEN Prefix(T, 240) \o <<".", ".", ".">>
            ELSE IF Len(T) < 200 THEN T \o TwitterPrompt
            ELSE T
      [] platform = "linkedin" ->
            (IF IncludesStr(T, <<"p","r","o","f","e","s","s","i","o","n","a","l">>)
                \/ IncludesStr(T, <<"b","u","s","i","n","e","s","s">>)
             THEN T ELSE LinkedinFraming \o toLowerCase(T))
            \o LinkedinQuestion
      [] platform = "newsletter" -> NewsletterGreeting \o T \o NewsletterClosing

\* C11: with the tone professional the result is the channel pass applied
\* to the tone-adjusted text, which is the input with every "!" replaced
\* by "." and every whole word awesome, amazing, cool replaced by
\* excellent; "This is awesome!" is adjusted to "This is excellent.".
C11_ToneBeforeChannel ==
    (called = "adaptForPlatform" /\ args.tone.type = "string"
     /\ LowerTone(args.tone.value) = "professional") =>
        LET T == TonePass(args.content, args.tone)
        IN  /\ C11_IsProfessionalOf(T, args.content)
            /\ ret = C11_ChannelPass(T, args.platform)
            /\ args.content = <<"T","h","i","s"," ","i","s"," ","a","w","e","s","o","m","e","!">> =>
                  T = <<"T","h","i","s"," ","i","s"," ","e","x","c","e","l","l","e","n","t",".">>

\* C11 witness: a 240-unit text grew beyond 240 units under the
\* professional tone and was then cut by the short-form channel pass
C11_Witness ==
    /\ called = "adaptForPlatform"
    /\ args.tone = Str("professional")
    /\ args.platform = "twitter"
    /\ Len(args.content) = 240
    /\ C11_Starts(args.content) # {}
    /\ Len(ret) = 243
    /\ SubSeq(ret, 241, 243) = <<".", ".", ".">>

\* C11 witness: the example text on the professional feed
C11_WitnessExample ==
    /\ called = "adaptForPlatform"
    /\ args.tone = Str("professional")
    /\ args.platform = "linkedin"
    /\ args.content = <<"T","h","i","s"," ","i","s"," ","a","w","e","s","o","m","e","!">>
    /\ ret = LinkedinFraming \o <<"t","h","i","s"," ","i","s"," ","e","x","c","e","l","l","e","n","t",".">> \o LinkedinQuestion

C10_EngagementScoreRange ==
    called = "predictEngagement" => ret.engagement_score \in 0..100

\* the sum of the bonuses of args.content that do not depend on the channel
C10_Bonuses ==
    (IF args.sentiment.label = "positive" THEN 15
     ELSE IF args.sentiment.label = "negative" THEN 5 ELSE 0)
    + (IF \E i \in DOMAIN args.content : args.content[i] = "#" THEN 10 ELSE 0)
    + (IF \E i \in DOMAIN args.content : args.content[i] = "?" THEN 12 ELSE 0)
    + (IF HasCallToAction(args.content) THEN 15 ELSE 0)

\* C10 witness: the base (50) plus the bonuses exceeds 100 and the
\* engagement_score is 100.
C10_Witness ==
    /\ called = "predictEngagement"
    /\ 50 + C10_Bonuses > 100
    /\ ret.engagement_score = 100

(***************************************************************************)
(* Properties of the route handler.                                        *)
(***************************************************************************)
\* C2: within one request, every run of the Engagement Forecaster for a
\* channel comes after a run of the Channel Adapter for that channel and
\* takes the adapter's output for that channel as its input.
C2_ForecastAfterAdapter ==
    \A i \in DOMAIN log :
        log[i].fn = "predictEngagement" =>
            \E j \in 1..(i - 1) :
                /\ log[j].fn = "adaptForPlatform"
                /\ log[j].platform = log[i].platform
                /\ log[i].input = log[j].output

\* the body is a JSON value other than null whose content is absent, the
\* empty text or a text of whitespace only
ContentMissingOrBlank ==
    /\ request.type \notin {"none", "unparsable", "null"}
    /\ LET c == Field(request, "content")
       IN  \/ c.type = "undefined"
           \/ c.type = "string" /\ \A i \in DOMAIN c.value : c.value[i] \in Whitespace

PlatformFields(r) ==
    IF r = "optimized"
    THEN [ twitter |-> {"content", "hashtags", "character_count", "optimized_content"},
           linkedin |-> {"content", "hashtags", "character_count", "optimized_content"},
           newsletter |-> {"content", "subject_line", "word_count", "optimized_subject"} ]
    ELSE [ twitter |-> {"content", "hashtags", "character_count"},
           linkedin |-> {"content", "hashtags", "character_count"},
           newsletter |-> {"content", "subject_line", "word_count"} ]

\* b has every field of the result record of route r
IsCompleteResult(b, r) ==
    /\ DOMAIN b = {"original_content", "sentiment", "platforms", "metadata"}
                  \cup (IF r = "optimized"
                        THEN {"engagement_forecast", "optimization_suggestions"}
                        ELSE {})
    /\ DOMAIN b.sentiment = {"label", "confidence"}
    /\ DOMAIN b.platforms = Platforms
    /\ \A p \in Platforms : DOMAIN b.platforms[p] = PlatformFields(r)[p]
    /\ DOMAIN b.metadata = {"processing_time", "content_type", "language",
                            "readability_score"}
    /\ r = "optimized" =>
          /\ DOMAIN b.engagement_forecast = Platforms
          /\ \A p \in Platforms : "engagement_score" \in DOMAIN b.engagement_forecast[p]
          /\ DOMAIN b.optimization_suggestions =
                {"hashtag_recommendations", "keyword_suggestions",
                 "tone_adjustments", "timing_recommendations"}

\* the tone of the request is a truthy value that is no string, and its
\* content is a text that is not blank
MalformedTone ==
    /\ request.type = "object"
    /\ request.content.type = "string"
    /\ \E i \in DOMAIN request.content.value : request.content.value[i] \notin Whitespace
    /\ request.tone.type = "number"
    /\ request.tone.value # 0

\* the statements of route r; each has one step of the handler, whose only
\* guard is that the handler is at it
Positions(r) ==
    {At(st, "") : st \in {"start", "json", "validate", "sentiment", "respond", "catch"}}
    \cup {At("adapt", p) : p \in Platforms}
    \cup (IF r = "optimized"
          THEN {At(st, p) : st \in {"forecast", "optimize"}, p \in Platforms}
               \cup {At("suggest", "")}
          ELSE {})

\* C4: a request that is not over has no response yet and is at a statement
\* of the handler, from which it takes its next step; a
\* request that is over has either the complete result (status 200, no
\* fault) or an error body with the error message alone; a fault (such as
\* a malformed tone or an unparsable body) ends in the status 500
\* 'Internal server error'.
C4_FullResultOrError ==
    /\ pc # Done => response = NoResponse /\ pc \in Positions(route)
    /\ pc = Done =>
          \/ /\ response.status = 200
             /\ thrown = ""
             /\ IsCompleteResult(response.body, route)
          \/ /\ response.status \in {400, 500}
             /\ DOMAIN response.body = {"error"}
    /\ pc = Done /\ (thrown # "" \/ MalformedTone \/ request.type = "unparsable") =>
          response = [status |-> 500, body |-> [error |-> "Internal server error"]]

\* C4 witness: the adapter threw on a malformed tone after the sentiment
\* and the forecasts were computed, and the response is the status 500
C4_Witness ==
    /\ pc = Done
    /\ MalformedTone
    /\ thrown = "adaptForPlatform"
    /\ {"sentiment", "twitterForecast"} \subseteq DOMAIN locals
    /\ response.status = 500
    /\ DOMAIN response.body = {"error"}

\* C4 witness: an unparsable body ends in the status 500
C4_WitnessUnparsable ==
    /\ pc = Done
    /\ request.type = "unparsable"
    /\ thrown = "request.json"
    /\ response.status = 500

(***************************************************************************)
(* Properties of concurrent requests.                                      *)
(***************************************************************************)
\* the state of invocation id
ContextOf(id) == IF id = current THEN Context ELSE parked[id]

\* resp is a response that the request req yields on route r when it is
\* handled alone under the clock reading now, for some random draws
IsSoloOutcome(resp, r, req, now) ==
    IF req.type = "unparsable" \/ FieldThrows(req)
       \/ TrimThrows(Field(req, "content"))
    THEN resp = [status |-> 500, body |-> [error |-> "Internal server error"]]
    ELSE IF IsBlank(Field(req, "content"))
    THEN resp = [status |-> 400, body |-> [error |-> "Content is required"]]
    ELSE IF ToneThrows(req.tone)
    THEN resp = [status |-> 500, body |-> [error |-> "Internal server error"]]
    ELSE LET content == req.content.value
             sentiment == analyzeSentiment(content)
             b == resp.body
         IN  /\ resp.status = 200
             /\ b.original_content = content
             /\ b.sentiment = sentiment
             /\ b.metadata.readability_score = calculateReadability(content)
             /\ b.metadata.processing_time \in ElapsedMs
             /\ \A p \in Platforms :
                   b.platforms[p].content = adaptForPlatform(content, p, req.tone)
             /\ b.platforms.newsletter.subject_line = SubjectLine(content)
             /\ \A p \in {"twitter", "linkedin"} :
                   b.platforms[p].hashtags =
                       IF r = "optimized" THEN generateOptimizedHashtags(content, p)
                       ELSE extractHashtags(content, p)
             /\ r = "optimized" =>
                   /\ \A p \in Platforms :
                         \E draws \in DrawTriples :
                            b.engagement_forecast[p] =
                                predictEngagement(content, p, sentiment, draws, now)
                   /\ \A p \in {"twitter", "linkedin"} :
                         \E pick \in 0..3 :
                            b.platforms[p].optimized_content =
                                optimizeContentForEngagement(
                                    adaptForPlatform(content, p, req.tone), p, pick)
                   /\ b.platforms.newsletter.optimized_subject =
                          optimizeContentForEngagement(content, "newsletter", 0)
                   /\ b.optimization_suggestions =
                          generateOptimizationSuggestions(content, sentiment)

\* C13: whatever the interleaving of the steps of the requests, a request
\* that is over has the response it yields when handled alone under the
\* same clock reading, and until then it has no response.
C13_RequestsIsolated ==
    current \in RequestIds =>
        \A id \in RequestIds :
            LET c == ContextOf(id)
            IN  IF c.pc = Done
                THEN IsSoloOutcome(c.response, c.route, c.request, c.clock)
                ELSE c.response = NoResponse

\* C13 witness: two different requests, one on each route, are both over
\* with a result after their steps were interleaved
C13_Witness ==
    /\ current = 1
    /\ pc = Done
    /\ response.status = 200
    /\ route = "optimized"
    /\ parked[2].pc = Done
    /\ parked[2].response.status = 200
    /\ parked[2].route = "baseline"
    /\ parked[2].request # request

(***************************************************************************)
(* Properties of the optimal posting time.                                 *)
(***************************************************************************)
\* the slot a label names: its hour and the day it falls on, which is
\* today, tomorrow or a named weekday
LabelSlot(label) ==
    CASE label = "9:00 AM today" -> [hour |-> 9, on |-> "today"]
      [] label = "1:00 PM today" -> [hour |-> 13, on |-> "today"]
      [] label = "5:00 PM today" -> [hour |-> 17, on |-> "today"]
      [] label = "9:00 AM tomorrow" -> [hour |-> 9, on |-> "tomorrow"]
      [] label = "8:00 AM today" -> [hour |-> 8, on |-> "today"]
      [] label = "12:00 PM today" -> [hour |-> 12, on |-> "today"]
      [] label = "8:00 AM tomorrow" -> [hour |-> 8, on |-> "tomorrow"]
      [] label = "10:00 AM today" -> [hour |-> 10, on |-> "today"]
      [] label = "2:00 PM today" -> [hour |-> 14, on |-> "today"]
      [] label = "10:00 AM tomorrow" -> [hour |-> 10, on |-> "tomorrow"]
      [] label = "Tuesday 10:00 AM" -> [hour |-> 10, on |-> "Tuesday"]
      [] OTHER -> [hour |-> -1, on |-> "never"]

\* the weekday (0 is Sunday) of the slot of a label read on weekday day
SlotDay(label, day) ==
    LET on == LabelSlot(label).on
    IN  CASE on = "today" -> day
          [] on = "tomorrow" -> (day + 1) % 7
          [] on = "Tuesday" -> 2
          [] OTHER -> -1

GoodDays == {2, 3, 4}
Least(S) == CHOOSE h \in S : \A k \in S : h <= k

\* the earliest slot of the set slots after the hour of now, today, or the
\* first slot tomorrow when none is left today
NextSlot(slots, now) ==
    LET later == {h \in slots : h > now.hour}
    IN  IF later # {} THEN [hour |-> Least(later), on |-> "today"]
        ELSE [hour |-> Least(slots), on |-> "tomorrow"]

\* C14: the digest send time falls on a good weekday (Tuesday to Thursday):
\* read on a good weekday it is the next 10:00 AM or 2:00 PM slot, read on
\* another weekday it is Tuesday 10:00 AM.
C14_DigestSlotOnGoodDay ==
    (called = "getOptimalPostingTime" /\ args.platform = "newsletter") =>
        /\ SlotDay(ret, args.now.day) \in GoodDays
        /\ IF args.now.day \in GoodDays
           THEN LabelSlot(ret) = NextSlot({10, 14}, args.now)
           ELSE ret = "Tuesday 10:00 AM"

\* the digest send time is the next 10:00 AM or 2:00 PM slot on a good
\* weekday and Tuesday 10:00 AM on another weekday (the part of C14 that
\* does not say on which weekday the slot falls)
C14_DigestNextSlot ==
    (called = "getOptimalPostingTime" /\ args.platform = "newsletter") =>
        IF args.now.day \in GoodDays
        THEN LabelSlot(ret) = NextSlot({10, 14}, args.now)
        ELSE ret = "Tuesday 10:00 AM"

\* the slots of a feed
FeedSlots(platform) == IF platform = "twitter" THEN {9, 13, 17} ELSE {8, 12, 17}

C15_WitnessTomorrow ==
    /\ called = "getOptimalPostingTime"
    /\ args.platform = "linkedin"
    /\ args.now.hour = 17
    /\ ret = "8:00 AM tomorrow"

(***************************************************************************)
(* Properties of the suggestion set.                                       *)
(***************************************************************************)
\* t holds one of the power words as a whole word, in any letter case
C17_HasPowerWord(t) ==
    \E i \in DOMAIN t :
        \E w \in { <<"a","m","a","z","i","n","g">>, <<"i","n","c","r","e","d","i","b","l","e">>,
                  <<"b","r","e","a","k","t","h","r","o","u","g","h">>,
                  <<"i","n","n","o","v","a","t","i","v","e">>,
                  <<"r","e","v","o","l","u","t","i","o","n","a","r","y">> } :
            WholeWordAt(t, w, i)

\* C17: the keyword list holds the power-words hint exactly when the text
\* holds no power word as a whole word, and the question hint exactly when
\* the text holds no question mark; the example text gets no power-words
\* hint.
C17_KeywordHints ==
    called = "generateOptimizationSuggestions" =>
        /\ Includes(ret.keyword_suggestions, PowerWordsHint)
              <=> ~C17_HasPowerWord(args.content)
        /\ Includes(ret.keyword_suggestions, QuestionHint)
              <=> ~(\E i \in DOMAIN args.content : args.content[i] = "?")
        /\ \A i \in DOMAIN ret.keyword_suggestions :
              ret.keyword_suggestions[i] \in {PowerWordsHint, QuestionHint}
        /\ args.content = SuggestionExample =>
              ret.keyword_suggestions = <<QuestionHint>>

\* C17 witness: the example text, which holds the word breakthrough, got
\* the question hint alone
C17_Witness ==
    /\ called = "generateOptimizationSuggestions"
    /\ args.content = SuggestionExample
    /\ ret.keyword_suggestions = <<QuestionHint>>

\* C17 witness: a text holding amazingly, which is no power word, and a
\* question mark got the power-words hint alone
C17_WitnessEmbedded ==
    /\ called = "generateOptimizationSuggestions"
    /\ args.content = <<"a","m","a","z","i","n","g","l","y"," ","?">>
    /\ ret.keyword_suggestions = <<PowerWordsHint>>

\* C18: the tone list holds the emotional-language hint exactly when the
\* sentiment label is neutral and the clarify-tone hint exactly when the
\* confidence is below 0.7; for the sentiment of the text itself the
\* clarify-tone hint comes exactly with zero lexicon hits, and the tone
\* list of a positive or negative text is empty.
C18_ToneHints ==
    called = "generateOptimizationSuggestions" =>
        /\ Includes(ret.tone_adjustments, EmotionHint)
              <=> args.sentiment.label = "neutral"
        /\ Includes(ret.tone_adjustments, ClarifyToneHint)
              <=> 10 * args.sentiment.confidence.num < 7 * args.sentiment.confidence.den
        /\ \A i \in DOMAIN ret.tone_adjustments :
              ret.tone_adjustments[i] \in {EmotionHint, ClarifyToneHint}
        /\ args.sentiment = analyzeSentiment(args.content) =>
              /\ Includes(ret.tone_adjustments, ClarifyToneHint)
                    <=> (LexiconHits(args.content, positiveWords) = 0
                         /\ LexiconHits(args.content, negativeWords) = 0)
              /\ args.sentiment.label \in {"positive", "negative"} =>
                    ret.tone_adjustments = <<>>

\* C18 witness: a text with one positive and one negative hit (neutral at
\* confidence 0.7) got the emotional-language hint alone
C18_Witness ==
    /\ called = "generateOptimizationSuggestions"
    /\ args.sentiment = analyzeSentiment(args.content)
    /\ LexiconHits(args.content, positiveWords) = 1
    /\ LexiconHits(args.content, negativeWords) = 1
    /\ ret.tone_adjustments = <<EmotionHint>>

\* C18 witness: a text with no lexicon hit got both hints
C18_WitnessNoHits ==
    /\ called = "generateOptimizationSuggestions"
    /\ args.sentiment = analyzeSentiment(args.content)
    /\ LexiconHits(args.content, positiveWords) = 0
    /\ LexiconHits(args.content, negativeWords) = 0
    /\ Len(args.content) > 0
    /\ ret.tone_adjustments = <<EmotionHint, ClarifyToneHint>>

(***************************************************************************)
(* Properties of the digest forecast.                                      *)
(***************************************************************************)
C19_Within(x, lo, hi) == lo * x.den <= x.num /\ x.num <= hi * x.den

\* C19: in the digest forecast the predicted open rate lies within [15, 45]
\* and the predicted click rate within [2, 15].
C19_DigestRatesInRange ==
    (called = "predictEngagement" /\ args.platform = "newsletter") =>
        /\ C19_Within(ret.predicted_open_rate, 15, 45)
        /\ C19_Within(ret.predicted_click_rate, 2, 15)

\* C19 witness: a digest forecast whose score is above 75, so that both
\* products exceed the upper bounds, reports 45 and 15
C19_Witness ==
    /\ called = "predictEngagement"
    /\ args.platform = "newsletter"
    /\ BaseScore(args.content, args.platform, args.sentiment) > 75
    /\ ret.predicted_open_rate = Rat(45, 1)
    /\ ret.predicted_click_rate = Rat(15, 1)

\* C19 witness: a digest forecast whose score is strictly between 25 and 75
\* reports the two products themselves
C19_WitnessInside ==
    /\ called = "predictEngagement"
    /\ args.platform = "newsletter"
    /\ BaseScore(args.content, args.platform, args.sentiment) > 25
    /\ BaseScore(args.content, args.platform, args.sentiment) < 75
    /\ ret.predicted_open_rate.den = 10
    /\ ret.predicted_click_rate.den = 10

(***************************************************************************)
(* Properties of the readability formula.                                  *)
(***************************************************************************)
\* S: the fragments between runs of . ! ? that hold more than whitespace,
\* counted by the first such unit of each fragment
C21_S(t) ==
    Cardinality({i \in DOMAIN t :
        /\ t[i] \notin (Whitespace \cup SentenceEnd)
        /\ \A j \in 1..(i - 1) :
              (\A k \in j..(i - 1) : t[k] \notin SentenceEnd) => t[j] \in Whitespace})

\* the first units of the non-empty whitespace-separated words
C21_WordStarts(t) ==
    {i \in DOMAIN t : t[i] \notin Whitespace /\ (i = 1 \/ t[i - 1] \in Whitespace)}

\* Y: over the non-empty words, the runs of vowels, a word without a vowel
\* counting 1
C21_Y(t) ==
    LET low == toLowerCase(t)
        starts == {i \in DOMAIN low :
                    low[i] \in Vowels /\ (i = 1 \/ low[i - 1] \notin Vowels)}
        mute == {i \in C21_WordStarts(t) :
                    \A j \in i..Len(t) :
                        (\A k \in i..j : t[k] \notin Whitespace) => low[j] \notin Vowels}
    IN  Cardinality(starts) + Cardinality(mute)

\* r is round(206.835 - 1.015*(W/S) - 84.6*(Y/W)) clamped to [0, 100]
C21_IsScore(r, S, W, Y) ==
    LET n == 2 * (206835 * S * W - 1015 * W * W - 84600 * Y * S) + 1000 * S * W
        d == 2000 * S * W
    IN  IF n < d THEN r = 0
        ELSE IF n >= 100 * d THEN r = 100
        ELSE r * d <= n /\ n < (r + 1) * d

\* the text without its leading and trailing whitespace
C21_Trim(t) ==
    LET solid == {i \in DOMAIN t : t[i] \notin Whitespace}
    IN  IF solid = {} THEN <<>>
        ELSE SubSeq(t, CHOOSE i \in solid : \A j \in solid : i <= j,
                       CHOOSE i \in solid : \A j \in solid : j <= i)

\* C21: for a text with at least one sentence and one word the readability
\* score is round(206.835 - 1.015*(W/S) - 84.6*(Y/W)) clamped to [0, 100],
\* Y summed over exactly the W non-empty words; a text with leading or
\* trailing whitespace scores the same as the trimmed text.
C21_ReadabilityFormula ==
    called = "calculateReadability" =>
        /\ (C21_S(args.text) >= 1 /\ C21_WordStarts(args.text) # {}) =>
              C21_IsScore(ret, C21_S(args.text),
                          Cardinality(C21_WordStarts(args.text)), C21_Y(args.text))
        /\ ret = calculateReadability(C21_Trim(args.text))

\* The part of C21 that holds: the formula gives the score of every text
\* that neither starts nor ends with whitespace.
C21_FormulaWithoutOuterWhitespace ==
    (/\ called = "calculateReadability"
     /\ C21_Trim(args.text) = args.text
     /\ C21_S(args.text) >= 1) =>
        C21_IsScore(ret, C21_S(args.text),
                    Cardinality(C21_WordStarts(args.text)), C21_Y(args.text))

\* a text led by whitespace scored strictly between 0 and 100 without it
C21_WitnessOuterWhitespace ==
    /\ called = "calculateReadability"
    /\ C21_Trim(args.text) # args.text
    /\ calculateReadability(C21_Trim(args.text)) \in 1..99
    /\ ret # calculateReadability(C21_Trim(args.text))

(***************************************************************************)
(* Properties of the engagement score.                                     *)
(***************************************************************************)
\* the number of non-empty whitespace-separated words of t
C22_Words(t) ==
    Cardinality({i \in DOMAIN t :
        t[i] \notin Whitespace /\ (i = 1 \/ t[i - 1] \in Whitespace)})

\* the units of t before its first "."
C22_FirstSegmentLength(t) ==
    LET dots == {i \in DOMAIN t : t[i] = "."}
    IN  IF dots = {} THEN Len(t)
        ELSE (CHOOSE i \in dots : \A j \in dots : i <= j) - 1

\* B of the claim, for a given word count
C22_B(t, platform, label, wordCount) ==
    50
    + (CASE label = "positive" -> 15 [] label = "negative" -> 5 [] OTHER -> 0)
    + (IF \E i \in DOMAIN t : t[i] = "#" THEN 10 ELSE 0)
    + (IF \E i \in 1..(Len(t) - 1) : t[i] = EmojiHigh /\ t[i + 1] = EmojiLow
       THEN 8 ELSE 0)
    + (IF \E i \in DOMAIN t : t[i] = "?" THEN 12 ELSE 0)
    + (IF \E i \in DOMAIN t : \E w \in CallToActionPhrases : WholeWordAt(t, w, i)
       THEN 15 ELSE 0)
    + (CASE platform = "twitter" ->
                (IF Len(t) \in 71..100 THEN 10 ELSE 0)
                + (IF Len(t) > 280 THEN -20 ELSE 0)
         [] platform = "linkedin" ->
                (IF wordCount \in 50..200 THEN 15 ELSE 0)
                + (IF \/ IncludesStr(t, <<"p","r","o","f","e","s","s","i","o","n","a","l">>)
                      \/ IncludesStr(t, <<"b","u","s","i","n","e","s","s">>)
                   THEN 10 ELSE 0)
         [] platform = "newsletter" ->
                (IF C22_FirstSegmentLength(t) <= 50 THEN 10 ELSE -5))

C22_Min100(b) == IF b < 100 THEN b ELSE 100

\* C22: the engagement_score is min(100, B), B being 50 plus the sentiment,
\* hashtag, emoji, question and call-to-action bonuses plus the channel
\* adjustment, the professional channel's band of 50..200 taken over the
\* number of words of the text.
C22_ScoreFormula ==
    called = "predictEngagement" =>
        ret.engagement_score =
            C22_Min100(C22_B(args.content, args.platform, args.sentiment.label,
                             C22_Words(args.content)))

\* The part of C22 that holds: the formula with the number of pieces of the
\* whitespace split (empty outer pieces included) for the word count.
C22_ScoreFormulaOverPieces ==
    called = "predictEngagement" =>
        ret.engagement_score =
            C22_Min100(C22_B(args.content, args.platform, args.sentiment.label,
                             SplitLength(args.content, "s")))

\* a professional-channel forecast of a text of 49 words led by whitespace
C22_WitnessBand ==
    /\ called = "predictEngagement"
    /\ args.platform = "linkedin"
    /\ C22_Words(args.content) = 49
    /\ SplitLength(args.content, "s") = 50

(***************************************************************************)
(* Properties of the tone adjustments.                                     *)
(***************************************************************************)
\* t holds no exclamation mark and neither formal synonym as a whole word
C23_Plain(t) ==
    /\ \A i \in DOMAIN t : t[i] # "!"
    /\ \A i \in DOMAIN t :
          /\ ~WholeWordAt(t, <<"e","x","c","e","l","l","e","n","t">>, i)
          /\ ~WholeWordAt(t, <<"o","u","t","s","t","a","n","d","i","n","g">>, i)

\* the positions of t where awesome, amazing or cool stands as a whole word
C23_Swapped(t) ==
    {i \in DOMAIN t :
        \E w \in {<<"a","w","e","s","o","m","e">>, <<"a","m","a","z","i","n","g">>,
                  <<"c","o","o","l">>} : WholeWordAt(t, w, i)}

\* C23 as stated: for a text without an exclamation mark and without a
\* formal synonym, the casual pass applied to the result of the professional
\* pass returns the original text.
C23_Original ==
    (called = "casual" /\ C23_Plain(args.content)) => ret = args.content

\* C23 (amended): for such a text the casual pass applied to the result of
\* the professional pass returns the text with every whole-word awesome,
\* amazing or cool, in any letter case, replaced by lower-case awesome; it
\* returns the original text exactly when each such word of the text is
\* lower-case awesome.
C23_RoundTrip ==
    (called = "casual" /\ C23_Plain(args.content)) =>
        /\ ret = ReplaceWords(args.content, CasualWords, <<"a","w","e","s","o","m","e">>)
        /\ ret = args.content
              <=> \A i \in C23_Swapped(args.content) :
                      /\ i + 6 <= Len(args.content)
                      /\ SubSeq(args.content, i, i + 6) = <<"a","w","e","s","o","m","e">>

\* C23 witness: a text holding the word amazing came back with awesome in
\* its place
C23_Witness ==
    /\ called = "casual"
    /\ C23_Plain(args.content)
    /\ args.content = <<"x"," ","a","m","a","z","i","n","g"," ">>
    /\ ret = <<"x"," ","a","w","e","s","o","m","e"," ">>

\* C23 witness: a text whose only such word is lower-case awesome came back
\* unchanged
C23_WitnessRestored ==
    /\ called = "casual"
    /\ C23_Plain(args.content)
    /\ C23_Swapped(args.content) # {}
    /\ ret = args.content

(***************************************************************************)
(* Properties of the optimized short-form text.                            *)
(***************************************************************************)
\* C24: the optimized short-form content, optimizeContentForEngagement
\* applied to the short-form adapted text, is never longer than 280 units.
C24_OptimizedWithinCap ==
    called = "optimizeContentForEngagement" => Len(ret) <= 280

\* What holds instead: the optimized short-form content is never longer
\* than 282 units, 243 of the adapted text, 27 of the longest question and
\* 12 of the tag.
C24_OptimizedWithin282 ==
    called = "optimizeContentForEngagement" => Len(ret) <= 282

\* an optimized text of 282 units, made from a text of 300 units
C24_WitnessOverCap ==
    /\ called = "optimizeContentForEngagement"
    /\ Len(args.content) = 300
    /\ Len(ret) = 282

(***************************************************************************)
(* Properties of the professional-channel adaptation.                      *)
(***************************************************************************)
C25_HasTerm(t) ==
    \/ IncludesStr(t, <<"b","u","s","i","n","e","s","s">>)
    \/ IncludesStr(t, <<"p","r","o","f","e","s","s","i","o","n","a","l">>)

C25_Question ==
    <<"\n","\n","W","h","a","t"," ","h","a","s"," ","b","e","e","n"," ","y","o","u","r"," ","e","x","p","e","r","i","e","n","c","e"," ","w","i","t","h"," ","t","h","i","s","?"," ","S","h","a","r","e"," ","y","o","u","r"," ","t","h","o","u","g","h","t","s"," ","i","n"," ","t","h","e"," ","c","o","m","m","e","n","t","s",".">>

C25_Framing ==
    <<"I","n"," ","t","o","d","a","y","'","s"," ","b","u","s","i","n","e","s","s"," ","l","a","n","d","s","c","a","p","e",","," ">>

\* C25: the professional-channel adapted text holds the lower-case
\* substring business or professional and ends with the engagement question;
\* it is the framing clause, the lower-cased tone-adjusted text and the
\* question exactly when the tone-adjusted text holds neither substring, and
\* the tone-adjusted text and the question otherwise.
C25_ProfessionalFraming ==
    (called = "adaptForPlatform" /\ args.platform = "linkedin") =>
        LET adjusted == TonePass(args.content, args.tone)
            n == Len(ret) - Len(C25_Question)
        IN  /\ C25_HasTerm(ret)
            /\ n >= 0
            /\ SubSeq(ret, n + 1, Len(ret)) = C25_Question
            /\ IF C25_HasTerm(adjusted)
               THEN SubSeq(ret, 1, n) = adjusted
               ELSE SubSeq(ret, 1, n) = C25_Framing \o toLowerCase(adjusted)

\* C25 witness: a text that names Business with a capital alone got the
\* framing clause and was lower-cased
C25_Witness ==
    /\ called = "adaptForPlatform"
    /\ args.platform = "linkedin"
    /\ args.content = <<"B","i","g"," ","B","u","s","i","n","e","s","s">>
    /\ ret = C25_Framing \o <<"b","i","g"," ","b","u","s","i","n","e","s","s">> \o C25_Question

\* C25 witness: a text that names business in lower case kept its letter
\* case and got the question alone
C25_WitnessUnframed ==
    /\ called = "adaptForPlatform"
    /\ args.platform = "linkedin"
    /\ args.tone = Undefined
    /\ args.content = <<"O","u","r"," ","b","u","s","i","n","e","s","s"," ","i","s"," ","A","m","a","z","i","n","g">>
    /\ ret = args.content \o C25_Question

(***************************************************************************)
(* Properties of repeated forecasts.                                       *)
(***************************************************************************)
\* the fields of a forecast that a random draw or the clock may change
C26_Varying ==
    { "predicted_likes", "predicted_retweets", "predicted_replies",
      "predicted_shares", "predicted_comments",
      "optimal_posting_time", "optimal_send_time" }

\* C26: any two forecasts of the same text, channel and sentiment, whatever
\* the random draws and the clock reading of each, have the same
\* engagement_score; they differ at most in the predicted count metrics and
\* the optimal-time label.
C26_ScoreIndependentOfEnv ==
    \A i, j \in 1..Len(ret) :
        /\ ret[i].value.engagement_score = ret[j].value.engagement_score
        /\ DOMAIN ret[i].value = DOMAIN ret[j].value
        /\ \A f \in DOMAIN ret[i].value \ C26_Varying :
              ret[i].value[f] = ret[j].value[f]

\* C26 witness: two short-form forecasts of the same arguments, made under
\* different draws and clock readings, differ in a count metric and in the
\* optimal-time label and agree on the engagement_score
C26_Witness ==
    /\ Len(ret) >= 2
    /\ args.platform = "twitter"
    /\ ret[1].env.draws # ret[2].env.draws
    /\ ret[1].env.now # ret[2].env.now
    /\ ret[1].value.predicted_likes # ret[2].value.predicted_likes
    /\ ret[1].value.optimal_posting_time # ret[2].value.optimal_posting_time
    /\ ret[1].value.engagement_score = ret[2].value.engagement_score

(***************************************************************************)
(* Properties of the page.                                                 *)
(***************************************************************************)
\* the invocations that have sent a request, and those whose request was
\* answered with an OK response that was read
C27_Started == {i \in DOMAIN invocations : invocations[i].pos # "returned"}
C27_Resolved == {i \in DOMAIN invocations : invocations[i].pos = "resolved"}
C27_Greatest(S) == IF S = {} THEN 0 ELSE CHOOSE i \in S : \A j \in S : j <= i
C27_InFlight == {i \in DOMAIN invocations : Pending(i)}

\* C27 as stated: at most one request is in flight, and the displayed
\* result always comes from the most recently started request.
C27_Original ==
    /\ Cardinality(C27_InFlight) <= 1
    /\ result # NoResult => result = Data(C27_Greatest(C27_Started))

\* C27 (amended): at most one request is in flight, so the displayed result
\* is that of the most recent request that was answered with an OK
\* response: no late response of an earlier request overwrites it.  While
\* a later request is in flight, and after a later request has failed, the
\* result of the earlier request stays displayed.
C27_SingleFlight ==
    /\ Cardinality(C27_InFlight) <= 1
    /\ isProcessing <=> C27_InFlight # {}
    /\ result = Data(C27_Greatest(C27_Resolved))

\* C27 witness: the second request was answered after the first one, and
\* its result is displayed
C27_Witness ==
    /\ Len(invocations) >= 2
    /\ invocations[1].pos = "resolved"
    /\ invocations[2].pos = "resolved"
    /\ result = Data(2)

\* C27 witness: the result of the first request is displayed while the
\* second request is in flight
C27_WitnessEarlierDisplayed ==
    /\ Len(invocations) >= 2
    /\ invocations[1].pos = "resolved"
    /\ Pending(2)
    /\ result = Data(1)

\* the copy whose timer was set last: the copy that set copiedPlatform
C28_Latest == {i \in Timers : copies[i].timer = Cardinality(Timers)}

\* C28: copiedPlatform set by a copy is cleared only by the timer of that
\* copy, never by the timer of an earlier copy, so that the indicator is
\* shown for its full delay.
C28_ClearedByOwnTimer ==
    [][\A i \in DOMAIN copies :
          (/\ copiedPlatform # NullPlatform
           /\ copies[i].pos = "timer"
           /\ copies'[i].pos = "cleared")
          => i \in C28_Latest]_vars

\* What holds of the indicator: a timer never fires before its own delay
\* has passed, and no indicator is shown once every timer has fired.
C28_ClearedWhenTimersDone ==
    /\ \A i \in DOMAIN copies : copies[i].pos = "cleared" => copies[i].due <= seconds
    /\ (\A i \in Timers : copies[i].pos = "cleared") => copiedPlatform = NullPlatform

\* the linkedin indicator cleared by the timer of the earlier twitter copy,
\* one second after it was shown
C28_WitnessClearedEarly ==
    /\ Len(copies) >= 2
    /\ copies[1].platform = "twitter" /\ copies[1].pos = "cleared"
    /\ copies[2].platform = "linkedin" /\ copies[2].pos = "timer"
    /\ copies[2].due = seconds + 1
    /\ copiedPlatform = NullPlatform

\* C29: every invocation of handleProcess that sets isProcessing to true
\* sets it back to false, whether its request is answered with an OK
\* response, with another response, or fails; an invocation with blank
\* content leaves isProcessing as it is and sends no request.
C29_ProcessingEnds ==
    /\ \A i \in 1..MaxInvocations :
          (i \in DOMAIN invocations /\ Pending(i))
              ~> (/\ ~isProcessing
                  /\ i \in DOMAIN invocations
                  /\ invocations[i].pos \in {"resolved", "failed"})
    /\ [][/\ \A i \in DOMAIN invocations :
                (Pending(i) /\ ~Pending(i)') => ~isProcessing'
          /\ (Len(invocations') > Len(invocations) /\ ~NonBlank(contentInput)) =>
                /\ invocations'[Len(invocations')].pos = "returned"
                /\ isProcessing' = isProcessing
          /\ (Len(invocations') > Len(invocations) /\ NonBlank(contentInput)) =>
                /\ invocations'[Len(invocations')].pos = "fetch"
                /\ isProcessing']_vars

\* C29 witness: one invocation returned for blank content, one ended with
\* a failure and one with a result, and isProcessing is false
C29_Witness ==
    /\ ~isProcessing
    /\ \E i \in DOMAIN invocations : invocations[i].pos = "returned"
    /\ \E i \in DOMAIN invocations : invocations[i].pos = "failed"
    /\ \E i \in DOMAIN invocations : invocations[i].pos = "resolved"

\* C30: a request that fails, by a response that is not OK or by a thrown
\* error, leaves result as it is; result is replaced by the body of an OK
\* response alone.
C30_ResultOnlyFromOk ==
    [][/\ \A i \in DOMAIN invocations :
             (invocations[i].pos # "failed" /\ invocations'[i].pos = "failed")
                 => result' = result
       /\ result' # result =>
             \E i \in DOMAIN invocations :
                 /\ invocations[i].pos = "json"
                 /\ invocations'[i].pos = "resolved"
                 /\ result' = Data(i)]_vars

\* C30 witness: the second request failed and the result of the first one
\* is still displayed
C30_Witness ==
    /\ Len(invocations) >= 2
    /\ invocations[1].pos = "resolved"
    /\ invocations[2].pos = "failed"
    /\ result = Data(1)

=============================================================================
